---- MODULE Spec2Model ----
(***************************************************************************)
(* Model of the WOS rally countdown: the Durable Object room server        *)
(* (activity/worker/src/index.ts, class RallyRoom) and the React client    *)
(* (activity/web/src/App.jsx, component RallyApp).                         *)
(*                                                                         *)
(* Units.  Every instant and duration is an integer number of              *)
(* milliseconds, as Date.now() returns them, with one exception: the       *)
(* client computes offset = ((t1 - t0) + (t2 - t3)) / 2 in floating point, *)
(* so an offset can be an odd multiple of 0.5 ms.  A nullable value        *)
(* (null | v) is the sequence <<>> or <<v>>.  The offset and everything    *)
(* the client derives from it (offsetMs of a sample, offsetRef,            *)
(* timeOffsetMs, now and the remaining times of a rally row) is therefore  *)
(* held in HALF-milliseconds: the integer 2 * value.  Twice(x) converts    *)
(* whole milliseconds to that unit.                                        *)
(***************************************************************************)
EXTENDS Integers, Sequences, FiniteSets, TLC

VARIABLES
    \* ---- server: RallyRoom ----
    loaded,         \* this.data # null
    players,        \* this.data.players : sequence of [id, marchMs]
    rally,          \* this.data.rally : <<>> or <<[starterId, launchAt]>>
    lastActiveAt,   \* this.data.lastActiveAt
    stored,         \* storage key "state": <<>> or <<[players, rally, lastActiveAt]>>
    sockets,        \* this.sockets
    outbox,         \* per socket, the frames sent to it and not yet delivered
    serverNow,      \* the server's Date.now()
    \* ---- client: RallyApp ----
    state,          \* useState replica: [players, rally]
    now,            \* useState now (corrected time, half-ms)
    delay,          \* useState delay (rally duration, minutes)
    localNow,       \* the client's Date.now()
    syncSamples,    \* syncSamplesRef.current
    offsetRef,      \* offsetRef.current (half-ms)
    timeOffsetMs,   \* useState timeOffsetMs (half-ms)
    bestRttMs,      \* useState bestRttMs : <<>> or <<rtt>>
    lastSyncAt,     \* useState lastSyncAt : <<>> or <<t>>
    \* ---- the sockets ----
    reqs,           \* frames the client sent that the server has not handled yet
    broken,         \* sockets of this.sockets whose send() throws (peer gone, close not yet run)
    peerState,      \* useState replica of the second client, the one on socket ws2
    \* ---- history (not program state) ----
    accepted,       \* every sample setOffsetSample was called with, in order
    lastShake,      \* <<>> or <<[t0, t1, t2, t3]>> of the last folded reply
    lastMsg,        \* <<>> or <<[type, payload, before]>>: the last frame handled, the room before it
    \* ---- client: announcements ----
    announced,      \* announcedRef.current: the set of keys
    called,         \* history: the keys callFor ran for since the replica's rally last changed
    beeps,          \* history: <<>>, or <<[targetTs, nowTs, currentTime, calls]>>: the scheduleBeepsToTarget
                    \* call under examination and its beepAt calls, in order
    ttsEnabled,     \* useState ttsEnabled
    ttsRallyCalls,  \* useState ttsRallyCalls
    ttsMarchCalls,  \* useState ttsMarchCalls
    selectedIds,    \* useLocalSettings selectedIds, as a set
    \* ---- client: the session (socket effect, tick effect) ----
    readyState,     \* socket.readyState
    timers,         \* setTimeout callbacks of runSyncBurst not yet run
    syncInterval,   \* the 10 s interval of runSyncBurst is set
    tickInterval,   \* the 200 ms interval of setNow is set
    torn,           \* <<>>, or once the effects' cleanups ran <<[timers, frames]>>: what was pending then
    \* ---- server: the process ----
    defaultPlayers, \* DEFAULT_STATE.players, the one array of the module
    sharesDefault,  \* this.data.players is that array
    discarded,      \* history: <<>>, or <<payload>> when the last frame the client handled was a reply it dropped
    lastFrom,       \* history: "", or the socket whose TIME_SYNC_REQUEST the last step handled
    other,          \* a second RallyRoom of the same process: [loaded, shares, players]
    \* ---- server: calls under way ----
    started,        \* the fetch and handleMessage calls started, each [kind, ws, msg, pc, got]
    applied         \* history: the mutations accepted, in the order of acceptance

serverVars == <<loaded, players, rally, lastActiveAt, stored, sockets, outbox, serverNow>>
replicaVars == <<state, now, delay>>
syncVars == <<syncSamples, offsetRef, timeOffsetMs, bestRttMs, lastSyncAt>>
netVars == <<reqs, broken, peerState>>
histVars == <<accepted, lastShake, lastMsg>>
announceVars == <<announced, called, beeps>>
settingVars == <<ttsEnabled, ttsRallyCalls, ttsMarchCalls, selectedIds>>
sessionVars == <<readyState, timers, syncInterval, tickInterval, torn>>
heapVars == <<defaultPlayers, sharesDefault, other>>
callVars == <<started, applied>>
restVars == <<settingVars, sessionVars, heapVars, discarded, lastFrom, callVars>>
vars == <<serverVars, replicaVars, syncVars, netVars, histVars, localNow, announceVars, restVars>>

Twice(x) == 2 * x

Max(a, b) == IF a >= b THEN a ELSE b

(***************************************************************************)
(* Bounds of the model.                                                    *)
(***************************************************************************)
\* replies folded in a run of SpecWindow (more than the window holds)
MaxAccepted == 7
\* last millisecond of local time in a run of SpecRally
MaxLocal == 3
\* replies folded in a run of SpecRally
MaxRallyReplies == 1
\* milliseconds between the two Date.now() calls of the TIME_SYNC_REQUEST handler
MaxProc == 1
\* last millisecond of server time in a run of SpecServer
MaxServerNow == 2
\* last millisecond of local time in a run of SpecSync
MaxSyncTime == 3
\* TIME_SYNC_REQUEST frames sent in a run of SpecSync
MaxShakes == 2
\* frames sent to one socket and not yet received, in a run of SpecPush
MaxInFlight == 2

(***************************************************************************)
(* Client: the clock-sync estimator.                                       *)
(***************************************************************************)
SYNC_SAMPLE_COUNT == 6

\* Array.prototype.slice(-k) for k > 0: the last k elements
SliceLast(s, k) == IF Len(s) <= k THEN s ELSE SubSeq(s, Len(s) - k + 1, Len(s))

\* samples.reduce((min, next) => (next.rttMs < min.rttMs ? next : min), samples[0])
RECURSIVE ReduceMinRtt(_, _, _)
ReduceMinRtt(samples, i, min) ==
    IF i > Len(samples) THEN min
    ELSE ReduceMinRtt(samples, i + 1,
                      IF samples[i].rttMs < min.rttMs THEN samples[i] ELSE min)

\* mutant: next.rttMs <= min.rttMs, the last of several least RTTs wins
BestSample_LastOfTies(samples) ==
    samples[CHOOSE i \in 1..Len(samples) :
                /\ \A j \in 1..Len(samples) : samples[i].rttMs <= samples[j].rttMs
                /\ \A j \in (i + 1)..Len(samples) : samples[i].rttMs < samples[j].rttMs]

\* mutant: the most recent sample is taken as the best one
BestSample_Latest(samples) == samples[Len(samples)]

BestSample(samples) == ReduceMinRtt(samples, 1, samples[1])

\* mutant: slice(-SYNC_SAMPLE_COUNT) then push, the window grows to 7
PushSample_OffByOne(samples, s) == Append(SliceLast(samples, SYNC_SAMPLE_COUNT), s)

\* syncSamplesRef.current.slice(-SYNC_SAMPLE_COUNT + 1) followed by push
PushSample(samples, s) == Append(SliceLast(samples, SYNC_SAMPLE_COUNT - 1), s)

\* setOffsetSample(offsetMs, rttMs, atTs); offsetMs in half-ms
SetOffsetSample(offsetMs, rttMs, atTs) ==
    LET s == [offsetMs |-> offsetMs, rttMs |-> rttMs, atTs |-> atTs]
        samples == PushSample(syncSamples, s)
        best == BestSample(samples)
    IN  /\ syncSamples' = samples
        /\ offsetRef' = best.offsetMs
        /\ timeOffsetMs' = best.offsetMs
        /\ bestRttMs' = <<best.rttMs>>
        /\ lastSyncAt' = <<atTs>>
        /\ accepted' = Append(accepted, s)

\* a frame { type: "TIME_SYNC_RESPONSE" } without payload
NoPayload == [missing |-> TRUE]

\* mutant: only t0 is tested
AllFinite_OnlyT0(payload) == "t0" \notin payload.nonFinite

\* [t0, t1, t2].every((v) => Number.isFinite(v)); a payload lists in nonFinite
\* the fields that are not finite numbers
AllFinite(payload) == payload.nonFinite = {}

\* rtt = Math.max(0, (t3 - t0) - (t2 - t1))
RttOf(t0, t1, t2, t3) == Max(0, (t3 - t0) - (t2 - t1))

\* mutant: the server's processing time is not subtracted
OffsetOf_NoT2(t0, t1, t2, t3) == Twice(t1 - t0)

\* offset = ((t1 - t0) + (t2 - t3)) / 2, in half-ms
OffsetOf(t0, t1, t2, t3) == (t1 - t0) + (t2 - t3)

\* handleTimeSyncResponse(payload), with t3 = Date.now() = localNow
HandleTimeSyncResponse(payload) ==
    IF payload # NoPayload /\ AllFinite(payload)
    THEN /\ SetOffsetSample(OffsetOf(payload.t0, payload.t1, payload.t2, localNow),
                            RttOf(payload.t0, payload.t1, payload.t2, localNow),
                            localNow)
         /\ lastShake' = <<[t0 |-> payload.t0, t1 |-> payload.t1,
                            t2 |-> payload.t2, t3 |-> localNow]>>
    ELSE UNCHANGED <<syncVars, accepted, lastShake>>

\* the state of RallyApp's sync hooks after the first render
SyncInit ==
    /\ syncSamples = <<>>
    /\ offsetRef = 0
    /\ timeOffsetMs = 0
    /\ bestRttMs = <<>>
    /\ lastSyncAt = <<>>
    /\ accepted = <<>>
    /\ lastShake = <<>>
    /\ discarded = <<>>

\* syncFreshMs = 60000
syncFreshMs == 60000

\* mutant: a reply exactly syncFreshMs old still counts
IsSynced_Inclusive ==
    lastSyncAt # <<>> /\ lastSyncAt[1] # 0 /\ localNow - lastSyncAt[1] <= syncFreshMs

\* isSynced = lastSyncAt && Date.now() - lastSyncAt < syncFreshMs, in a render
\* at localNow
IsSynced ==
    lastSyncAt # <<>> /\ lastSyncAt[1] # 0 /\ localNow - lastSyncAt[1] < syncFreshMs

(***************************************************************************)
(* Client: the rally schedule (useMemo rallyComputed).                     *)
(***************************************************************************)
Ids(ps) == {ps[i].id : i \in 1..Len(ps)}

\* mutant: a starterId that matches nobody falls back to the first player
FindPlayer_FirstIfMissing(ps, id) ==
    IF id \in Ids(ps)
    THEN <<ps[CHOOSE i \in 1..Len(ps) :
                  /\ ps[i].id = id
                  /\ \A j \in 1..(i - 1) : ps[j].id # id]>>
    ELSE IF ps # <<>> THEN <<ps[1]>> ELSE <<>>

\* state.players.find((p) => p.id === id): <<>> or <<the first match>>
FindPlayer(ps, id) ==
    IF id \in Ids(ps)
    THEN <<ps[CHOOSE i \in 1..Len(ps) :
                  /\ ps[i].id = id
                  /\ \A j \in 1..(i - 1) : ps[j].id # id]>>
    ELSE <<>>

\* delay * 60 * 1000
RallyDurationOf(delayMin) == delayMin * 60 * 1000

\* mutant: the starter's march is left out, startAt = launchAt - p.marchMs
RowOf_NoStarterMarch(p, launchAt, arrivalAt, rallyDurationMs, nowH) ==
    LET startAt == launchAt - p.marchMs
    IN  [id |-> p.id, marchMs |-> p.marchMs,
         startAt |-> startAt,
         rallyStartAt |-> startAt - rallyDurationMs,
         diffMs |-> Twice(startAt) - nowH,
         diffToRallyStartMs |-> Twice(startAt - rallyDurationMs) - nowH,
         diffFromLaunchMs |-> startAt - launchAt,
         landInMs |-> Twice(arrivalAt) - nowH]

\* mutant: the remaining times are clamped, Math.max(0, ...)
RowOf_Clamped(p, launchAt, arrivalAt, rallyDurationMs, nowH) ==
    LET startAt == arrivalAt - p.marchMs
        playerRallyStartAt == startAt - rallyDurationMs
    IN  [id |-> p.id, marchMs |-> p.marchMs,
         startAt |-> startAt,
         rallyStartAt |-> playerRallyStartAt,
         diffMs |-> Max(0, Twice(startAt) - nowH),
         diffToRallyStartMs |-> Max(0, Twice(playerRallyStartAt) - nowH),
         diffFromLaunchMs |-> startAt - launchAt,
         landInMs |-> Max(0, Twice(arrivalAt) - nowH)]

\* the .map((p) => ...) callback; the remaining times are in half-ms
\* mutant: diffMs counts down to the player's rally start
RowOf_DiffToRallyStart(p, launchAt, arrivalAt, rallyDurationMs, nowH) ==
    LET startAt == arrivalAt - p.marchMs
        playerRallyStartAt == startAt - rallyDurationMs
    IN  [id |-> p.id, marchMs |-> p.marchMs,
         startAt |-> startAt,
         rallyStartAt |-> playerRallyStartAt,
         diffMs |-> Twice(playerRallyStartAt) - nowH,
         diffToRallyStartMs |-> Twice(playerRallyStartAt) - nowH,
         diffFromLaunchMs |-> startAt - launchAt,
         landInMs |-> Twice(arrivalAt) - nowH]

RowOf(p, launchAt, arrivalAt, rallyDurationMs, nowH) ==
    LET startAt == arrivalAt - p.marchMs
        playerRallyStartAt == startAt - rallyDurationMs
    IN  [id |-> p.id, marchMs |-> p.marchMs,
         startAt |-> startAt,
         rallyStartAt |-> playerRallyStartAt,
         diffMs |-> Twice(startAt) - nowH,
         diffToRallyStartMs |-> Twice(playerRallyStartAt) - nowH,
         diffFromLaunchMs |-> startAt - launchAt,
         landInMs |-> Twice(arrivalAt) - nowH]

\* mutant: r goes before the rows of equal startAt, the sort is not stable
InsertRow_BeforeEquals(sorted, r) ==
    LET k == Cardinality({i \in 1..Len(sorted) : sorted[i].startAt < r.startAt})
    IN  SubSeq(sorted, 1, k) \o <<r>> \o SubSeq(sorted, k + 1, Len(sorted))

\* one step of a stable sort: r goes after every row whose startAt is not larger
InsertRow(sorted, r) ==
    LET k == Cardinality({i \in 1..Len(sorted) : sorted[i].startAt <= r.startAt})
    IN  SubSeq(sorted, 1, k) \o <<r>> \o SubSeq(sorted, k + 1, Len(sorted))

\* .sort((a, b) => a.startAt - b.startAt), stable
RECURSIVE SortByStartAt(_)
SortByStartAt(rows) ==
    IF rows = <<>> THEN <<>>
    ELSE InsertRow(SortByStartAt(SubSeq(rows, 1, Len(rows) - 1)), rows[Len(rows)])

\* mutant: the test is joinRemainingMs < 0, the phases are taken the wrong way round
PhaseOf_Reversed(joinRemainingMs) == IF joinRemainingMs < 0 THEN "JOIN" ELSE "MARCH"

\* mutant: launch itself still counts as JOIN (>= 0 for > 0)
PhaseOf_LaunchIsJoin(joinRemainingMs) == IF joinRemainingMs >= 0 THEN "JOIN" ELSE "MARCH"

\* joinRemainingMs > 0 ? "JOIN" : "MARCH"
PhaseOf(joinRemainingMs) == IF joinRemainingMs > 0 THEN "JOIN" ELSE "MARCH"

\* rallyComputed: <<>> (null) or <<the result>>; nowH is the state now (half-ms)
RallyComputedOf(st, nowH, delayMin) ==
    IF st.rally = <<>> THEN <<>>
    ELSE LET activeRally == st.rally[1]
             found == FindPlayer(st.players, activeRally.starterId)
         IN  IF found = <<>> THEN <<>>
             ELSE LET starter == found[1]
                      launchAt == activeRally.launchAt
                      rallyDurationMs == RallyDurationOf(delayMin)
                      arrivalAt == launchAt + starter.marchMs
                      joinRemainingMs == Twice(launchAt) - nowH
                  IN  <<[starter |-> starter,
                         launchAt |-> launchAt,
                         rallyStartAt |-> launchAt - rallyDurationMs,
                         arrivalAt |-> arrivalAt,
                         rows |-> SortByStartAt(
                                    [i \in 1..Len(st.players) |->
                                        RowOf(st.players[i], launchAt, arrivalAt,
                                              rallyDurationMs, nowH)]),
                         joinRemainingMs |-> joinRemainingMs,
                         phase |-> PhaseOf(joinRemainingMs)]>>

\* mutant: no schedule while the indicator shows Syncing
rallyComputed_OnlySynced ==
    IF IsSynced THEN RallyComputedOf(state, now, delay) ELSE <<>>

\* the value of rallyComputed in the current render
rallyComputed == RallyComputedOf(state, now, delay)

\* mutant: the flag is also shown for a row that starts at launch
BeforeMarchShown_AtLaunchToo(r, phase) == phase = "JOIN" /\ r.diffFromLaunchMs <= 0

\* the row's countdownText ends with " (before March)":
\* isJoin, and then if (r.diffFromLaunchMs < 0)
BeforeMarchShown(r, phase) == phase = "JOIN" /\ r.diffFromLaunchMs < 0

(***************************************************************************)
(* Client: the announcement effect (useEffect of lines 475-533).           *)
(***************************************************************************)
triggerMs == 4200
toleranceMs == 350
tooLateMs == 600

\* the settings the effect reads
Settings ==
    [ttsEnabled |-> ttsEnabled, ttsRallyCalls |-> ttsRallyCalls,
     ttsMarchCalls |-> ttsMarchCalls, selectedIds |-> selectedIds]

\* targetTs and key of a row: <<>> where the loop continues, else
\* <<[kind, id, targetTs]>> for `rally:${r.id}:${targetTs}` or `march:...`
KeyOf(r, phase, cfg) ==
    IF cfg.selectedIds # {} /\ r.id \notin cfg.selectedIds THEN <<>>
    ELSE IF phase = "JOIN" /\ cfg.ttsRallyCalls
         THEN <<[kind |-> "rally", id |-> r.id, targetTs |-> r.rallyStartAt]>>
    ELSE IF phase = "MARCH" /\ cfg.ttsMarchCalls
         THEN <<[kind |-> "march", id |-> r.id, targetTs |-> r.startAt]>>
    ELSE <<>>

\* one of the two tests on msLeft = targetTs - now holds (msLeft in half-ms)
InTriggerWindow(msLeft) ==
    \/ msLeft <= Twice(triggerMs) /\ msLeft >= Twice(triggerMs - toleranceMs)
    \/ msLeft < Twice(triggerMs - toleranceMs) /\ msLeft > Twice(tooLateMs)

\* for (const r of rallyComputed.rows) from row i on: the set and the calls
RECURSIVE AnnounceRows(_, _, _, _, _, _, _)
AnnounceRows(rows, i, phase, nowH, cfg, ann, calls) ==
    IF i > Len(rows) THEN [ann |-> ann, calls |-> calls]
    ELSE LET key == KeyOf(rows[i], phase, cfg)
         IN  IF /\ key # <<>>
                /\ key[1] \notin ann
                /\ InTriggerWindow(Twice(key[1].targetTs) - nowH)
             THEN AnnounceRows(rows, i + 1, phase, nowH, cfg,
                               ann \cup {key[1]}, Append(calls, key[1]))
             ELSE AnnounceRows(rows, i + 1, phase, nowH, cfg, ann, calls)

\* the effect for the render of replica st at now nowH with duration delayMin
\* and settings cfg; calls is the history it appends to
AnnounceEffect(st, nowH, delayMin, cfg, calls) ==
    \E rc \in {RallyComputedOf(st, nowH, delayMin)} :
        IF ~cfg.ttsEnabled \/ rc = <<>>
        THEN announced' = announced /\ called' = calls /\ beeps' = beeps
        ELSE \E res \in {AnnounceRows(rc[1].rows, 1, rc[1].phase, nowH, cfg, announced, calls)} :
                announced' = res.ann /\ called' = res.calls /\ beeps' = beeps

\* after the first render: useState(true), useState(true), useState(false),
\* nobody selected, new Set()
VoiceInit ==
    /\ announced = {}
    /\ called = <<>>
    /\ beeps = <<>>
    /\ ttsEnabled = TRUE
    /\ ttsRallyCalls = TRUE
    /\ ttsMarchCalls = FALSE
    /\ selectedIds = {}

\* after the mount effects: new WebSocket(wsUrl) not yet open, the tick
\* interval set, the sync interval not yet
SessionInit ==
    /\ readyState = "CONNECTING"
    /\ timers = 0
    /\ syncInterval = FALSE
    /\ tickInterval = TRUE
    /\ torn = <<>>

\* a session whose socket has opened and whose first burst has run
SessionOpen ==
    /\ readyState = "OPEN"
    /\ timers = 0
    /\ syncInterval = TRUE
    /\ tickInterval = TRUE
    /\ torn = <<>>

\* the state of the replica hooks after the first render: useState(Date.now()),
\* useState({ players: [], rally: null }), useState(5)
ReplicaInit ==
    /\ state = [players |-> <<>>, rally |-> <<>>]
    /\ now = Twice(localNow)
    /\ delay = 5

\* setInterval(() => setNow(Date.now() + offsetRef.current), 200); the effect
\* runs when now has changed
Tick ==
    /\ tickInterval
    /\ now' = Twice(localNow) + offsetRef
    /\ IF now' = now THEN UNCHANGED announceVars
       ELSE AnnounceEffect(state, now', delay, Settings, called)
    /\ UNCHANGED <<serverVars, state, delay, syncVars, netVars, histVars, localNow, restVars>>

\* handleMessage of a STATE frame: setState(msg.payload); the payload is a new
\* object, so rallyComputed is recomputed and the effect runs
HandleState(payload) ==
    /\ state' = [players |-> payload.players, rally |-> payload.rally]
    /\ AnnounceEffect(state', now, delay, Settings,
                      IF payload.rally = state.rally THEN called ELSE <<>>)
    /\ UNCHANGED <<now, delay>>

\* the 5 min / 10 min buttons: setDelay(5), setDelay(10); the effect runs when
\* delay has changed
SetDelay(d) ==
    /\ delay' = d
    /\ IF d = delay THEN UNCHANGED announceVars
       ELSE AnnounceEffect(state, now, d, Settings, called)
    /\ UNCHANGED <<serverVars, state, now, syncVars, netVars, histVars, localNow, restVars>>

(***************************************************************************)
(* Server: RallyRoom.  A handler runs from the frame's arrival to its      *)
(* return as one step: ensureLoaded, the switch, persist and broadcast.    *)
(***************************************************************************)
Sockets == {"ws1", "ws2"}

\* the state after the constructor: data = null, no sockets, nothing stored
ServerInit ==
    /\ loaded = FALSE
    /\ players = <<>>
    /\ rally = <<>>
    /\ lastActiveAt = 0
    /\ stored = <<>>
    /\ sockets = {}
    /\ outbox = [s \in Sockets |-> <<>>]
    /\ lastMsg = <<>>

MAX_AGE_MS == 6 * 60 * 60 * 1000

\* { ...DEFAULT_STATE, lastActiveAt: now }: a shallow copy, players is the
\* array of DEFAULT_STATE itself
DefaultRoom(t) == [players |-> defaultPlayers, rally |-> <<>>, lastActiveAt |-> t]

\* the process has started: DEFAULT_STATE is the literal of line 31 and no
\* other room is loaded
HeapInit ==
    /\ defaultPlayers = <<>>
    /\ sharesDefault = FALSE
    /\ other = [loaded |-> FALSE, shares |-> FALSE, players |-> <<>>]
    /\ started = <<>>
    /\ applied = <<>>

\* !stored.lastActiveAt || now - stored.lastActiveAt > MAX_AGE_MS
TooOld(s, t) == s.lastActiveAt = 0 \/ t - s.lastActiveAt > MAX_AGE_MS

\* this.data after ensureLoaded()
LoadedRoom ==
    IF loaded THEN [players |-> players, rally |-> rally, lastActiveAt |-> lastActiveAt]
    ELSE IF stored # <<>> /\ ~TooOld(stored[1], serverNow) THEN stored[1]
    ELSE DefaultRoom(serverNow)

\* the storage after ensureLoaded(): a reset or a first load persists
StoredAfterLoad ==
    IF loaded \/ (stored # <<>> /\ ~TooOld(stored[1], serverNow)) THEN stored
    ELSE <<DefaultRoom(serverNow)>>

\* this.data after ensureLoaded() and this.data.lastActiveAt = Date.now()
TouchedRoom == [LoadedRoom EXCEPT !.lastActiveAt = serverNow]

StateFrame(room) == [type |-> "STATE", payload |-> room]

\* mutant: no try/catch around ws.send, a send that throws ends the loop; the
\* failing socket is taken to come first
Broadcast_AbortOnFailure(room) ==
    [s \in Sockets |-> IF s \in sockets /\ sockets \cap broken = {}
                       THEN Append(outbox[s], StateFrame(room))
                       ELSE outbox[s]]

\* broadcast(): for every ws of this.sockets, try { ws.send(text) } catch {}
Broadcast(room) ==
    [s \in Sockets |-> IF s \in sockets \ broken THEN Append(outbox[s], StateFrame(room))
                       ELSE outbox[s]]

\* ws.send(frame); on a broken socket it throws and nothing is sent
SendTo(ws, frame) ==
    IF ws \in broken THEN outbox ELSE [outbox EXCEPT ![ws] = Append(@, frame)]

\* the room the handler leaves in this.data, the storage and the frames sent
Leave(room, storage, sent) ==
    /\ loaded' = TRUE
    /\ players' = room.players
    /\ rally' = room.rally
    /\ lastActiveAt' = room.lastActiveAt
    /\ stored' = storage
    /\ outbox' = sent

\* the handler returns before persist(): only lastActiveAt was written
Drop == Leave(TouchedRoom, StoredAfterLoad, outbox)

\* mutant: the mutation is persisted and not broadcast
Persist_NoBroadcast(room) == Leave(room, <<room>>, outbox)

\* await this.persist(); this.broadcast(); return
PersistAndBroadcast(room) == Leave(room, <<room>>, Broadcast(room))

\* a frame of socket ws reaches handleMessage
Arrives(ws) == ws \in sockets

\* every frame sent to an open socket has reached its client
Delivered == \A s \in sockets : outbox[s] = <<>>

\* history: the frame handled last
Handled(type, payload) ==
    lastMsg' = <<[type |-> type, payload |-> payload,
                  before |-> [players |-> players, rally |-> rally]]>>

\* case "STATE_REQUEST"
StateRequest(ws) ==
    /\ Arrives(ws)
    /\ Handled("STATE_REQUEST", <<>>)
    /\ Leave(TouchedRoom, StoredAfterLoad, SendTo(ws, StateFrame(TouchedRoom)))
    /\ UNCHANGED <<sockets, serverNow>>

\* mutant: the payload is always pushed
Upsert_AlwaysPush(ps, p) == Append(ps, p)

\* findIndex + replace in place, or push
Upsert(ps, p) ==
    IF p.id \in Ids(ps)
    THEN LET idx == CHOOSE i \in 1..Len(ps) :
                        ps[i].id = p.id /\ \A j \in 1..(i - 1) : ps[j].id # p.id
         IN  [ps EXCEPT ![idx] = p]
    ELSE Append(ps, p)

\* case "PLAYER_ADD"; payload is <<>> (missing) or <<player>>, id "" is falsy
PlayerAdd(ws, payload) ==
    /\ Arrives(ws)
    /\ Handled("PLAYER_ADD", payload)
    /\ IF payload = <<>> \/ payload[1].id = ""
       THEN Drop
       ELSE PersistAndBroadcast([TouchedRoom EXCEPT !.players = Upsert(@, payload[1])])
    /\ UNCHANGED <<sockets, serverNow>>

\* this.data.players.filter((p) => p.id !== id)
RECURSIVE WithoutId(_, _)
WithoutId(ps, id) ==
    IF ps = <<>> THEN <<>>
    ELSE IF Head(ps).id = id THEN WithoutId(Tail(ps), id)
    ELSE <<Head(ps)>> \o WithoutId(Tail(ps), id)

\* mutant: the rally is kept when its starter is removed
RemoveFrom_KeepRally(room, id) == [room EXCEPT !.players = WithoutId(@, id)]

\* mutant: removing any player ends the rally
RemoveFrom_AnyEndsRally(room, id) ==
    [room EXCEPT !.players = WithoutId(@, id), !.rally = <<>>]

\* the room after PLAYER_REMOVE of id: filter, and if starter removed, end rally
RemoveFrom(room, id) ==
    [room EXCEPT !.players = WithoutId(@, id),
                 !.rally = IF @ # <<>> /\ @[1].starterId = id THEN <<>> ELSE @]

\* case "PLAYER_REMOVE"; id "" is falsy
PlayerRemove(ws, id) ==
    /\ Arrives(ws)
    /\ Handled("PLAYER_REMOVE", id)
    /\ IF id = ""
       THEN Drop
       ELSE PersistAndBroadcast(RemoveFrom(TouchedRoom, id))
    /\ UNCHANGED <<sockets, serverNow>>

\* Number(x) is finite and >= 0; <<>> is a missing or non-numeric field (NaN)
FiniteNonNegative(x) == x # <<>> /\ x[1] >= 0

\* mutant: the payload's launchAt is ignored, launchAt is always computed
LaunchOf_ServerOnly(payload, t) ==
    IF FiniteNonNegative(payload.rallyDurationMs)
       /\ (payload.preDelayMs = <<>> \/ FiniteNonNegative(payload.preDelayMs))
    THEN <<t + (IF payload.preDelayMs = <<>> THEN 0 ELSE payload.preDelayMs[1])
              + payload.rallyDurationMs[1]>>
    ELSE <<>>

\* computedLaunchAt of RALLY_START handled at server time t: <<>> when the
\* handler returns early, else <<launchAt>>
LaunchOf(payload, t) ==
    IF payload.launchAt # <<>> THEN payload.launchAt
    ELSE IF FiniteNonNegative(payload.rallyDurationMs)
            /\ (payload.preDelayMs = <<>> \/ FiniteNonNegative(payload.preDelayMs))
         THEN <<t + (IF payload.preDelayMs = <<>> THEN 0 ELSE payload.preDelayMs[1])
                   + payload.rallyDurationMs[1]>>
         ELSE <<>>

\* case "RALLY_START"; payload is <<>> (missing) or <<[starterId, launchAt,
\* rallyDurationMs, preDelayMs]>>, the three numbers <<>> when missing
RallyStart(ws, payload) ==
    /\ Arrives(ws)
    /\ Handled("RALLY_START", payload)
    /\ IF payload = <<>> \/ payload[1].starterId = "" \/ LaunchOf(payload[1], serverNow) = <<>>
       THEN Drop
       ELSE PersistAndBroadcast(
                [TouchedRoom EXCEPT !.rally = <<[starterId |-> payload[1].starterId,
                                                  launchAt |-> LaunchOf(payload[1], serverNow)[1]]>>])
    /\ UNCHANGED <<sockets, serverNow>>

\* case "RALLY_END"
RallyEnd(ws) ==
    /\ Arrives(ws)
    /\ Handled("RALLY_END", <<>>)
    /\ PersistAndBroadcast([TouchedRoom EXCEPT !.rally = <<>>])
    /\ UNCHANGED <<sockets, serverNow>>

\* mutant: the reply goes to every socket of the room
TimeSyncRequest_ToAll(ws, t0, proc) ==
    /\ Arrives(ws)
    /\ Handled("TIME_SYNC_REQUEST", t0)
    /\ IF t0 = <<>>
       THEN Drop /\ UNCHANGED serverNow
       ELSE /\ Leave(TouchedRoom, StoredAfterLoad,
                     [s \in Sockets |->
                        IF s \in sockets
                        THEN Append(outbox[s],
                                    [type |-> "TIME_SYNC_RESPONSE",
                                     payload |-> [t0 |-> t0[1], t1 |-> serverNow,
                                                  t2 |-> serverNow + proc, nonFinite |-> {}]])
                        ELSE outbox[s]])
            /\ serverNow' = serverNow + proc
    /\ UNCHANGED sockets

\* case "TIME_SYNC_REQUEST"; t0 is <<>> (not a finite number) or <<t0>>; the
\* clock moves by proc between t1 = Date.now() and t2 = Date.now()
TimeSyncRequest(ws, t0, proc) ==
    /\ Arrives(ws)
    /\ Handled("TIME_SYNC_REQUEST", t0)
    /\ IF t0 = <<>>
       THEN Drop /\ UNCHANGED serverNow
       ELSE /\ Leave(TouchedRoom, StoredAfterLoad,
                     SendTo(ws, [type |-> "TIME_SYNC_RESPONSE",
                                 payload |-> [t0 |-> t0[1], t1 |-> serverNow,
                                              t2 |-> serverNow + proc, nonFinite |-> {}]]))
            /\ serverNow' = serverNow + proc
    /\ UNCHANGED sockets

\* JSON.parse throws, or no case of the switch matches
Unparsable(ws) ==
    /\ Arrives(ws)
    /\ Handled("?", <<>>)
    /\ Drop
    /\ UNCHANGED <<sockets, serverNow>>

\* fetch() with Upgrade: websocket: ensureLoaded, accept, add, send the state
Connect(ws) ==
    /\ ws \notin sockets
    /\ sockets' = sockets \cup {ws}
    /\ Leave(LoadedRoom, StoredAfterLoad, SendTo(ws, StateFrame(LoadedRoom)))
    /\ UNCHANGED <<serverNow, lastMsg>>

\* cleanup on close or error: this.sockets.delete(server); frames in flight are lost
Close(ws) ==
    /\ ws \in sockets
    /\ sockets' = sockets \ {ws}
    /\ outbox' = [outbox EXCEPT ![ws] = <<>>]
    /\ UNCHANGED <<loaded, players, rally, lastActiveAt, stored, serverNow, lastMsg>>

\* no frame under way, no socket broken, the second client after its first render
NetInit ==
    /\ reqs = <<>>
    /\ broken = {}
    /\ peerState = [players |-> <<>>, rally |-> <<>>]
    /\ lastFrom = ""

(***************************************************************************)
(* SpecWindow: the estimator alone.  Replies reach handleTimeSyncResponse  *)
(* one per millisecond of local time; each carries a round trip of r ms    *)
(* and server stamps k ms ahead of the local receive instant.              *)
(***************************************************************************)
WindowRtts == {1, 2}
WindowAheads == {0, 1}

WindowPayloads(t3) ==
    {[t0 |-> t3 - r, t1 |-> t3 + k, t2 |-> t3 + k, nonFinite |-> {}] :
        r \in WindowRtts, k \in WindowAheads}

WindowInit ==
    /\ ServerInit
    /\ serverNow = 0
    /\ localNow = 0
    /\ ReplicaInit
    /\ SyncInit
    /\ NetInit
    /\ VoiceInit
    /\ SessionInit
    /\ HeapInit

WindowReply ==
    /\ Len(accepted) < MaxAccepted
    /\ localNow' = localNow + 1
    /\ \E payload \in WindowPayloads(localNow) : HandleTimeSyncResponse(payload)
    /\ UNCHANGED <<serverVars, replicaVars, netVars, lastMsg, announceVars, restVars>>

WindowNext == WindowReply

SpecWindow == WindowInit /\ [][WindowNext]_vars

(***************************************************************************)
(* SpecRally: the schedule computation.  The client receives STATE frames  *)
(* with any small roster and rally, its clock advances, it ticks, the user *)
(* switches the rally duration and one time-sync reply moves the offset    *)
(* by half a millisecond or more.                                          *)
(***************************************************************************)
RallyIds == {"p1", "p2"}
RallyMarches == {1, 3}
RallyStarters == {"p1", "p2", "gone"}
RallyLaunches == {2}

RallyPlayers == [id : RallyIds, marchMs : RallyMarches]

RallyRosters ==
    {<<>>} \cup {<<p>> : p \in RallyPlayers}
    \cup {<<pq[1], pq[2]>> : pq \in {x \in RallyPlayers \X RallyPlayers : x[1].id # x[2].id}}

RallySnapshots ==
    [players : RallyRosters,
     rally : {<<>>} \cup {<<r>> : r \in [starterId : RallyStarters, launchAt : RallyLaunches]}]

RallyPayloads(t3) ==
    {[t0 |-> t3 - 1, t1 |-> t3 + k, t2 |-> t3 + k, nonFinite |-> {}] : k \in {-1, 1}}

RallyInit ==
    /\ ServerInit
    /\ serverNow = 0
    /\ localNow = 0
    /\ ReplicaInit
    /\ SyncInit
    /\ NetInit
    /\ VoiceInit
    /\ SessionInit
    /\ HeapInit

RallyState ==
    /\ \E payload \in RallySnapshots : HandleState(payload)
    /\ UNCHANGED <<serverVars, syncVars, netVars, histVars, localNow, restVars>>

RallyAdvance ==
    /\ localNow < MaxLocal
    /\ localNow' = localNow + 1
    /\ UNCHANGED <<serverVars, replicaVars, syncVars, netVars, histVars, announceVars, restVars>>

RallyReply ==
    /\ Len(accepted) < MaxRallyReplies
    /\ \E payload \in RallyPayloads(localNow) : HandleTimeSyncResponse(payload)
    /\ UNCHANGED <<serverVars, replicaVars, netVars, lastMsg, localNow, announceVars, restVars>>

RallyDelay == \E d \in {5, 10} : SetDelay(d)

RallyNext == RallyState \/ RallyAdvance \/ RallyReply \/ RallyDelay \/ Tick

SpecRally == RallyInit /\ [][RallyNext]_vars

(***************************************************************************)
(* SpecServer: the room.  Two sockets connect and close and send any       *)
(* frame of the protocol, well-formed or not, in any order.  A frame is    *)
(* handled when the frames sent before it have been delivered (the server  *)
(* never reads what it sent; SpecPush has frames in flight).               *)
(***************************************************************************)
ServerIds == {"p1", "p2"}
ServerMarches == {1, 3}

AddPayloads ==
    {<<>>, <<[id |-> "", marchMs |-> 1]>>} \cup {<<p>> : p \in [id : ServerIds, marchMs : ServerMarches]}

RemoveIds == ServerIds \cup {""}

\* a client of this repository (durations only), one that sends its own
\* launchAt, the malformed ones (no duration, a negative pre-delay) and one
\* with its own launchAt and a negative duration
StartShapes ==
    {[launchAt |-> <<>>, rallyDurationMs |-> <<2>>, preDelayMs |-> <<1>>],
     [launchAt |-> <<>>, rallyDurationMs |-> <<2>>, preDelayMs |-> <<>>],
     [launchAt |-> <<6>>, rallyDurationMs |-> <<2>>, preDelayMs |-> <<1>>],
     [launchAt |-> <<>>, rallyDurationMs |-> <<>>, preDelayMs |-> <<1>>],
     [launchAt |-> <<>>, rallyDurationMs |-> <<2>>, preDelayMs |-> <<-1>>],
     [launchAt |-> <<6>>, rallyDurationMs |-> <<-2>>, preDelayMs |-> <<1>>]}

StartPayloads ==
    {<<>>} \cup {<<[starterId |-> id, launchAt |-> s.launchAt,
                     rallyDurationMs |-> s.rallyDurationMs, preDelayMs |-> s.preDelayMs]>> :
                    id \in ServerIds \cup {""}, s \in StartShapes}

clientVars ==
    <<replicaVars, syncVars, netVars, accepted, lastShake, localNow, announceVars, restVars>>

ServerSpecInit ==
    /\ ServerInit
    /\ serverNow = 0
    /\ localNow = 0
    /\ ReplicaInit
    /\ SyncInit
    /\ NetInit
    /\ VoiceInit
    /\ SessionInit
    /\ HeapInit

ServerAdvance ==
    /\ serverNow < MaxServerNow
    /\ serverNow' = serverNow + 1
    /\ UNCHANGED <<loaded, players, rally, lastActiveAt, stored, sockets, outbox, lastMsg>>
    /\ UNCHANGED clientVars

\* the head frame of a socket reaches its client
ServerDeliver(ws) ==
    /\ outbox[ws] # <<>>
    /\ outbox' = [outbox EXCEPT ![ws] = Tail(@)]
    /\ UNCHANGED <<loaded, players, rally, lastActiveAt, stored, sockets, serverNow, lastMsg>>

SrvConnect == (\E ws \in Sockets : Connect(ws)) /\ UNCHANGED clientVars

SrvClose == (\E ws \in Sockets : Close(ws)) /\ UNCHANGED clientVars

SrvStateRequest == Delivered /\ (\E ws \in Sockets : StateRequest(ws)) /\ UNCHANGED clientVars

SrvPlayerAdd ==
    /\ Delivered
    /\ \E ws \in Sockets, payload \in AddPayloads : PlayerAdd(ws, payload)
    /\ UNCHANGED clientVars

SrvPlayerRemove ==
    /\ Delivered
    /\ \E ws \in Sockets, id \in RemoveIds : PlayerRemove(ws, id)
    /\ UNCHANGED clientVars

SrvRallyStart ==
    /\ Delivered
    /\ \E ws \in Sockets, payload \in StartPayloads : RallyStart(ws, payload)
    /\ UNCHANGED clientVars

SrvRallyEnd == Delivered /\ (\E ws \in Sockets : RallyEnd(ws)) /\ UNCHANGED clientVars

SrvTimeSync ==
    /\ Delivered
    /\ \E ws \in Sockets, t0 \in {<<>>, <<0>>}, proc \in 0..MaxProc :
          /\ serverNow + proc <= MaxServerNow
          /\ TimeSyncRequest(ws, t0, proc)
    /\ UNCHANGED clientVars

SrvUnparsable == Delivered /\ (\E ws \in Sockets : Unparsable(ws)) /\ UNCHANGED clientVars

SrvDeliver == (\E ws \in Sockets : ServerDeliver(ws)) /\ UNCHANGED clientVars

ServerNext ==
    \/ SrvConnect \/ SrvClose \/ SrvStateRequest \/ SrvPlayerAdd \/ SrvPlayerRemove
    \/ SrvRallyStart \/ SrvRallyEnd \/ SrvTimeSync \/ SrvUnparsable \/ SrvDeliver
    \/ ServerAdvance

SpecServer == ServerSpecInit /\ [][ServerNext]_vars

(***************************************************************************)
(* SpecSync: the time-sync handshake end to end.  It starts at a moment    *)
(* when the client of socket ws1 is connected and holds the room's state,  *)
(* one player whose rally launches two milliseconds of server time later;  *)
(* the server's clock is theta ms ahead of the client's and both advance   *)
(* together.  Requests and replies each take any number of milliseconds.   *)
(***************************************************************************)
SyncThetas == {-1, 2}

SyncRoom(t) ==
    [players |-> <<[id |-> "p1", marchMs |-> 1]>>,
     rally |-> <<[starterId |-> "p1", launchAt |-> t + 2]>>,
     lastActiveAt |-> t]

SyncSpecInit ==
    /\ localNow = 0
    /\ serverNow \in SyncThetas
    /\ loaded = TRUE
    /\ players = SyncRoom(serverNow).players
    /\ rally = SyncRoom(serverNow).rally
    /\ lastActiveAt = serverNow
    /\ stored = <<SyncRoom(serverNow)>>
    /\ sockets = {"ws1"}
    /\ outbox = [s \in Sockets |-> <<>>]
    /\ lastMsg = <<>>
    /\ state = [players |-> players, rally |-> rally]
    /\ now = Twice(localNow)
    /\ delay = 5
    /\ SyncInit
    /\ NetInit
    /\ VoiceInit
    /\ SessionOpen
    /\ HeapInit

\* mutant: the readyState of the socket is not looked at
SendTimeSync_AnyState ==
    reqs' = Append(reqs, [type |-> "TIME_SYNC_REQUEST", payload |-> <<localNow>>])

\* requestTimeSync(socket): if (socket.readyState !== WebSocket.OPEN) return;
\* send { type: "TIME_SYNC_REQUEST", payload: { t0: Date.now() } }
SendTimeSync ==
    IF readyState = "OPEN"
    THEN reqs' = Append(reqs, [type |-> "TIME_SYNC_REQUEST", payload |-> <<localNow>>])
    ELSE reqs' = reqs

RequestTimeSync ==
    /\ SendTimeSync
    /\ UNCHANGED <<serverVars, replicaVars, syncVars, histVars, localNow, broken, peerState,
                   announceVars, restVars>>

\* the client's handleMessage(e) for a frame of the server
ClientHandleMessage(frame) ==
    /\ IF frame.type = "STATE"
       THEN HandleState(frame.payload) /\ UNCHANGED <<syncVars, accepted, lastShake>>
       ELSE IF frame.type = "TIME_SYNC_RESPONSE"
       THEN HandleTimeSyncResponse(frame.payload) /\ UNCHANGED <<replicaVars, announceVars>>
       ELSE UNCHANGED <<replicaVars, syncVars, accepted, lastShake, announceVars>>
    /\ discarded' = IF /\ frame.type = "TIME_SYNC_RESPONSE"
                       /\ ~(frame.payload # NoPayload /\ AllFinite(frame.payload))
                    THEN <<frame.payload>> ELSE <<>>

SyncRequest ==
    /\ Len(accepted) + Len(reqs) + Len(outbox["ws1"]) < MaxShakes
    /\ RequestTimeSync

\* the server handles the client's oldest frame; its clock moves by proc in the
\* handler and the client's with it
SyncServe ==
    /\ reqs # <<>>
    /\ Delivered
    /\ \E proc \in 0..MaxProc :
          /\ localNow + proc <= MaxSyncTime
          /\ TimeSyncRequest("ws1", Head(reqs).payload, proc)
          /\ localNow' = localNow + proc
    /\ reqs' = Tail(reqs)
    /\ UNCHANGED <<replicaVars, syncVars, accepted, lastShake, broken, peerState,
                   announceVars, restVars>>

\* the oldest frame sent to ws1 reaches the client's handleMessage
SyncReceive ==
    /\ outbox["ws1"] # <<>>
    /\ ClientHandleMessage(Head(outbox["ws1"]))
    /\ outbox' = [outbox EXCEPT !["ws1"] = Tail(@)]
    /\ UNCHANGED <<loaded, players, rally, lastActiveAt, stored, sockets, serverNow,
                   netVars, lastMsg, localNow, settingVars, sessionVars, heapVars, lastFrom, callVars>>

\* one millisecond passes on both clocks
SyncAdvance ==
    /\ localNow < MaxSyncTime
    /\ localNow' = localNow + 1
    /\ serverNow' = serverNow + 1
    /\ UNCHANGED <<loaded, players, rally, lastActiveAt, stored, sockets, outbox,
                   replicaVars, syncVars, netVars, histVars, announceVars, restVars>>

SyncNext == SyncRequest \/ SyncServe \/ SyncReceive \/ SyncAdvance \/ Tick

SpecSync == SyncSpecInit /\ [][SyncNext]_vars

(***************************************************************************)
(* SpecShake: one room, two sockets, and the requests of the handshake     *)
(* among a few mutations.  lastFrom names the requester during the step    *)
(* that handles its request and is "" after every other step.              *)
(***************************************************************************)
\* the server instant the run of SpecShake stops at
MaxShakeNow == 2

ShakeT0s == {<<>>, <<0>>, <<7>>}
ShakeAdds == {<<[id |-> "p1", marchMs |-> 1]>>, <<[id |-> "p2", marchMs |-> 3]>>}
\* the payload this repository's client sends, and the one the README
\* describes: { starterId, delayMs }; the handler destructures starterId,
\* launchAt, rallyDurationMs and preDelayMs and never reads delayMs
ShakeStarts ==
    {<<[starterId |-> "p1", launchAt |-> <<>>, rallyDurationMs |-> <<2>>, preDelayMs |-> <<1>>,
        delayMs |-> <<>>]>>,
     <<[starterId |-> "p1", launchAt |-> <<>>, rallyDurationMs |-> <<>>, preDelayMs |-> <<>>,
        delayMs |-> <<2>>]>>}

shakeClientVars ==
    <<replicaVars, syncVars, netVars, accepted, lastShake, localNow, announceVars,
      settingVars, sessionVars, heapVars, discarded, callVars>>

ShakeConnect ==
    /\ \E ws \in Sockets : Connect(ws)
    /\ lastFrom' = ""
    /\ UNCHANGED shakeClientVars

ShakeTimeSync ==
    /\ Delivered
    /\ \E ws \in Sockets, t0 \in ShakeT0s, proc \in 0..MaxProc :
          /\ serverNow + proc <= MaxShakeNow
          /\ TimeSyncRequest(ws, t0, proc)
          /\ lastFrom' = ws
    /\ UNCHANGED shakeClientVars

ShakeAdd ==
    /\ Delivered
    /\ \E ws \in Sockets, payload \in ShakeAdds : PlayerAdd(ws, payload)
    /\ lastFrom' = ""
    /\ UNCHANGED shakeClientVars

ShakeStart ==
    /\ Delivered
    /\ \E ws \in Sockets, payload \in ShakeStarts : RallyStart(ws, payload)
    /\ lastFrom' = ""
    /\ UNCHANGED shakeClientVars

ShakeDeliver ==
    /\ \E ws \in Sockets : ServerDeliver(ws)
    /\ lastFrom' = ""
    /\ UNCHANGED shakeClientVars

ShakeAdvance ==
    /\ serverNow < MaxShakeNow
    /\ serverNow' = serverNow + 1
    /\ lastFrom' = ""
    /\ UNCHANGED <<loaded, players, rally, lastActiveAt, stored, sockets, outbox, lastMsg>>
    /\ UNCHANGED shakeClientVars

ShakeNext ==
    ShakeConnect \/ ShakeTimeSync \/ ShakeAdd \/ ShakeStart \/ ShakeDeliver \/ ShakeAdvance

SpecShake == ServerSpecInit /\ [][ShakeNext]_vars

(***************************************************************************)
(* SpecReply: one client and the frames that reach it.  Replies are well   *)
(* formed or not, requests may stay unanswered, and the local clock moves  *)
(* in steps of half a minute, so that a reply gets syncFreshMs old.  The   *)
(* local clock starts at a positive instant, as Date.now() is.             *)
(***************************************************************************)
\* replies folded in a run of SpecReply
MaxReplies == 2
\* the local instant the run of SpecReply stops at
MaxReplyTime == 60004

\* requests of a run of SpecReply that stay unanswered
MaxUnanswered == 1

ReplyStart == 3
ReplyWaits == {29999, 30000}
ReplyRtts == {1, 2}
ReplyNonFinite == {{}, {"t0"}, {"t1"}, {"t2"}, {"t0", "t1", "t2"}}

\* the payloads of a reply arriving at t3: the three fields with the ones that
\* are not finite numbers, or no payload at all
ReplyPayloads(t3) ==
    {[t0 |-> t3 - r, t1 |-> t3, t2 |-> t3, nonFinite |-> nf] :
        r \in ReplyRtts, nf \in ReplyNonFinite} \cup {NoPayload}

ReplyInit ==
    /\ ServerInit
    /\ serverNow = 0
    /\ localNow = ReplyStart
    /\ ReplicaInit
    /\ SyncInit
    /\ NetInit
    /\ VoiceInit
    /\ SessionOpen
    /\ HeapInit

\* a reply is on its way to the client
ReplyArrive ==
    /\ outbox["ws1"] = <<>>
    /\ Len(accepted) < MaxReplies
    /\ \E payload \in ReplyPayloads(localNow) :
          outbox' = [outbox EXCEPT !["ws1"] =
                        Append(@, [type |-> "TIME_SYNC_RESPONSE", payload |-> payload])]
    /\ UNCHANGED <<loaded, players, rally, lastActiveAt, stored, sockets, serverNow,
                   replicaVars, syncVars, netVars, histVars, localNow, announceVars, restVars>>

\* a request that nobody answers
ReplyRequest ==
    /\ Len(reqs) < MaxUnanswered
    /\ RequestTimeSync

\* local time passes
ReplyWait ==
    /\ \E d \in ReplyWaits :
          /\ localNow + d <= MaxReplyTime
          /\ localNow' = localNow + d
    /\ UNCHANGED <<serverVars, replicaVars, syncVars, netVars, histVars, announceVars, restVars>>

ReplyNext == ReplyArrive \/ SyncReceive \/ ReplyRequest \/ ReplyWait

SpecReply == ReplyInit /\ [][ReplyNext]_vars

(***************************************************************************)
(* SpecSession: the life of one client session, from new WebSocket to the  *)
(* cleanups of the socket effect and the tick effect.  The server is the   *)
(* frames that reach the client; frames may still be under way, and burst  *)
(* timers pending, when the cleanups run.                                  *)
(***************************************************************************)
\* requests of the client not yet taken off the wire
MaxSessionReqs == 1
\* replies folded in a run of SpecSession
MaxSessionReplies == 2
\* the local instant the run of SpecSession stops at
MaxSessionTime == 1

SessionSnapshots ==
    {[players |-> <<[id |-> "p1", marchMs |-> 1]>>, rally |-> r, lastActiveAt |-> 0] :
        r \in {<<>>, <<[starterId |-> "p1", launchAt |-> 2]>>}}

SessionFrames(t3) ==
    {StateFrame(room) : room \in SessionSnapshots}
    \cup {[type |-> "TIME_SYNC_RESPONSE",
           payload |-> [t0 |-> t3 - r, t1 |-> t3, t2 |-> t3, nonFinite |-> {}]] :
            r \in ReplyRtts}

sessionRest == <<serverVars, broken, peerState, lastFrom, settingVars, heapVars, callVars>>

\* handleOpen: send STATE_REQUEST, runSyncBurst(socket), set the 10 s interval
handleOpen ==
    /\ readyState = "CONNECTING"
    /\ readyState' = "OPEN"
    /\ reqs' = Append(reqs, [type |-> "STATE_REQUEST", payload |-> <<>>])
    /\ timers' = timers + SYNC_SAMPLE_COUNT
    /\ syncInterval' = TRUE
    /\ UNCHANGED <<tickInterval, torn, replicaVars, syncVars, histVars, localNow,
                   announceVars, discarded, sessionRest>>

\* the 10 s interval fires, the timers of the burst before have run:
\* runSyncBurst(socket)
SyncIntervalFires ==
    /\ syncInterval
    /\ timers = 0
    /\ timers' = SYNC_SAMPLE_COUNT
    /\ UNCHANGED <<readyState, syncInterval, tickInterval, torn, reqs, replicaVars, syncVars,
                   histVars, localNow, announceVars, discarded, sessionRest>>

\* a timer of a burst fires: requestTimeSync(socket)
BurstTimer ==
    /\ timers > 0
    /\ Len(reqs) < MaxSessionReqs
    /\ timers' = timers - 1
    /\ SendTimeSync
    /\ UNCHANGED <<readyState, syncInterval, tickInterval, torn, replicaVars, syncVars,
                   histVars, localNow, announceVars, discarded, sessionRest>>

\* the oldest request leaves the wire
SessionTaken ==
    /\ reqs # <<>>
    /\ reqs' = Tail(reqs)
    /\ UNCHANGED <<serverVars, replicaVars, syncVars, broken, peerState, histVars, localNow,
                   announceVars, restVars>>

\* the server sends a frame to the client
SessionArrive ==
    /\ readyState = "OPEN"
    /\ outbox["ws1"] = <<>>
    /\ Len(accepted) < MaxSessionReplies
    /\ \E frame \in SessionFrames(localNow) :
          outbox' = [outbox EXCEPT !["ws1"] = Append(@, frame)]
    /\ UNCHANGED <<loaded, players, rally, lastActiveAt, stored, sockets, serverNow,
                   replicaVars, syncVars, netVars, histVars, localNow, announceVars, restVars>>

\* mutant: the message listener stays on the socket
MessageEvent_ListenerKept(frame) ==
    ClientHandleMessage(frame)

\* a message event of the socket: handleMessage runs while it is a listener
MessageEvent(frame) ==
    IF torn = <<>>
    THEN ClientHandleMessage(frame)
    ELSE UNCHANGED <<replicaVars, syncVars, accepted, lastShake, announceVars, discarded>>

SessionReceive ==
    /\ outbox["ws1"] # <<>>
    /\ MessageEvent(Head(outbox["ws1"]))
    /\ outbox' = [outbox EXCEPT !["ws1"] = Tail(@)]
    /\ UNCHANGED <<loaded, players, rally, lastActiveAt, stored, sockets, serverNow,
                   netVars, lastMsg, localNow, settingVars, sessionVars, heapVars, lastFrom, callVars>>

\* one millisecond passes
SessionAdvance ==
    /\ localNow < MaxSessionTime
    /\ localNow' = localNow + 1
    /\ UNCHANGED <<serverVars, replicaVars, syncVars, netVars, histVars, announceVars, restVars>>

\* the component unmounts, both cleanups run: clearInterval(syncInterval),
\* removeEventListener for open and message, socket.close(); clearInterval(id)
Teardown ==
    /\ torn = <<>>
    /\ torn' = <<[timers |-> timers, frames |-> Len(outbox["ws1"])]>>
    /\ syncInterval' = FALSE
    /\ tickInterval' = FALSE
    /\ readyState' = "CLOSING"
    /\ UNCHANGED <<timers, reqs, replicaVars, syncVars, histVars, localNow, announceVars,
                   discarded, sessionRest>>

SessionNext ==
    \/ handleOpen
    \/ SyncIntervalFires
    \/ BurstTimer
    \/ SessionTaken
    \/ SessionArrive
    \/ SessionReceive
    \/ SessionAdvance
    \/ Tick
    \/ Teardown

SpecSession == ServerSpecInit /\ [][SessionNext]_vars

(***************************************************************************)
(* SpecRooms: two rooms of one process.  The first is the room of the      *)
(* server variables, reached through socket ws1; of the second only        *)
(* this.data.players is kept, in other.  DEFAULT_STATE is one object of    *)
(* the module: { ...DEFAULT_STATE } copies the reference to its players    *)
(* array, push and players[idx] = write into that array, filter makes a    *)
(* new one.  The other specifications hold one room that is loaded once    *)
(* and never reads DEFAULT_STATE again; they leave these variables alone.  *)
(***************************************************************************)
RoomsAdds == {[id |-> "p1", marchMs |-> 1], [id |-> "p2", marchMs |-> 1], [id |-> "p1", marchMs |-> 3]}
RoomsRemoves == {"p1", "p2"}
RoomsStarts ==
    {<<[starterId |-> "p1", launchAt |-> <<>>, rallyDurationMs |-> <<2>>, preDelayMs |-> <<1>>]>>}

roomsClientVars ==
    <<replicaVars, syncVars, netVars, accepted, lastShake, localNow, announceVars,
      settingVars, sessionVars, discarded, lastFrom, callVars>>

\* ensureLoaded() takes, or took, the players array of DEFAULT_STATE
LoadsDefault ==
    IF loaded THEN sharesDefault ELSE ~(stored # <<>> /\ ~TooOld(stored[1], serverNow))

\* the arrays after a handler of the first room that leaves its players array in
\* place (replaced = FALSE) or assigns a new one (replaced = TRUE)
HeapAfter(replaced) ==
    /\ sharesDefault' = (~replaced /\ LoadsDefault)
    /\ defaultPlayers' = IF sharesDefault' THEN players' ELSE defaultPlayers
    /\ other' = IF other.loaded /\ other.shares
                THEN [other EXCEPT !.players = defaultPlayers']
                ELSE other

RoomsConnect ==
    /\ Connect("ws1")
    /\ HeapAfter(FALSE)
    /\ UNCHANGED roomsClientVars

RoomsAdd ==
    /\ Delivered
    /\ \E p \in RoomsAdds : PlayerAdd("ws1", <<p>>)
    /\ HeapAfter(FALSE)
    /\ UNCHANGED roomsClientVars

RoomsRemove ==
    /\ Delivered
    /\ \E id \in RoomsRemoves : PlayerRemove("ws1", id)
    /\ HeapAfter(TRUE)
    /\ UNCHANGED roomsClientVars

RoomsStart ==
    /\ Delivered
    /\ \E payload \in RoomsStarts : RallyStart("ws1", payload)
    /\ HeapAfter(FALSE)
    /\ UNCHANGED roomsClientVars

RoomsDeliver ==
    /\ ServerDeliver("ws1")
    /\ UNCHANGED <<roomsClientVars, heapVars>>

\* the first fetch of the second room, nothing stored: ensureLoaded()
OtherLoad ==
    /\ ~other.loaded
    /\ other' = [loaded |-> TRUE, shares |-> TRUE, players |-> defaultPlayers]
    /\ UNCHANGED <<serverVars, lastMsg, roomsClientVars, defaultPlayers, sharesDefault>>

\* PLAYER_ADD handled by the second room
OtherAdd ==
    /\ other.loaded
    /\ \E p \in RoomsAdds :
          LET ps == Upsert(other.players, p)
          IN  /\ other' = [other EXCEPT !.players = ps]
              /\ defaultPlayers' = IF other.shares THEN ps ELSE defaultPlayers
              /\ players' = IF loaded /\ sharesDefault /\ other.shares THEN ps ELSE players
    /\ UNCHANGED <<loaded, rally, lastActiveAt, stored, sockets, outbox, serverNow, lastMsg,
                   roomsClientVars, sharesDefault>>

\* PLAYER_REMOVE handled by the second room
OtherRemove ==
    /\ other.loaded
    /\ \E id \in RoomsRemoves :
          other' = [other EXCEPT !.players = WithoutId(@, id), !.shares = FALSE]
    /\ UNCHANGED <<serverVars, lastMsg, roomsClientVars, defaultPlayers, sharesDefault>>

RoomsNext ==
    \/ RoomsConnect
    \/ RoomsAdd
    \/ RoomsRemove
    \/ RoomsStart
    \/ RoomsDeliver
    \/ OtherLoad
    \/ OtherAdd
    \/ OtherRemove

SpecRooms == ServerSpecInit /\ [][RoomsNext]_vars

(***************************************************************************)
(* SpecPush: snapshots under way.  Two clients, each with its replica, on  *)
(* the sockets ws1 and ws2; frames are handled while earlier STATE frames  *)
(* are still in flight, a socket's send can start to fail before its close *)
(* event runs, and a socket that closed can be opened again by a new       *)
(* client.  The server's clock stands still: the snapshots differ by their *)
(* players and by the presence of the rally.                               *)
(***************************************************************************)
PushAdds == {<<[id |-> "p1", marchMs |-> 1]>>, <<[id |-> "p2", marchMs |-> 1]>>}
PushRemoves == {"p1", "p2"}
PushStarts ==
    {<<[starterId |-> id, launchAt |-> <<>>, rallyDurationMs |-> <<2>>, preDelayMs |-> <<1>>]>> :
        id \in {"p1", "p2"}}

PushInit ==
    /\ ServerInit
    /\ serverNow = 0
    /\ localNow = 0
    /\ ReplicaInit
    /\ SyncInit
    /\ NetInit
    /\ VoiceInit
    /\ SessionInit
    /\ HeapInit

\* STATE frames in flight to one socket are at most MaxInFlight
Room(ws) == ws \in sockets /\ \A s \in sockets : Len(outbox[s]) < MaxInFlight

pushClientVars ==
    <<replicaVars, syncVars, reqs, broken, peerState, accepted, lastShake, localNow,
      announceVars, restVars>>

\* new WebSocket(wsUrl) by a newly mounted client: its replica is the initial one
PushConnect ==
    /\ \E ws \in Sockets :
          /\ Connect(ws)
          /\ IF ws = "ws1"
             THEN state' = [players |-> <<>>, rally |-> <<>>] /\ UNCHANGED peerState
             ELSE peerState' = [players |-> <<>>, rally |-> <<>>] /\ UNCHANGED state
    /\ UNCHANGED <<now, delay, syncVars, reqs, broken, accepted, lastShake, localNow,
                   announceVars, restVars>>

\* the close or error event of a socket
PushClose ==
    /\ \E ws \in Sockets : Close(ws) /\ broken' = broken \ {ws}
    /\ UNCHANGED <<replicaVars, syncVars, reqs, peerState, accepted, lastShake, localNow,
                   announceVars, restVars>>

\* the peer of a socket goes away: from now on send() throws, what was in
\* flight is lost
PushBreak ==
    /\ \E ws \in sockets \ broken :
          /\ broken' = broken \cup {ws}
          /\ outbox' = [outbox EXCEPT ![ws] = <<>>]
    /\ UNCHANGED <<loaded, players, rally, lastActiveAt, stored, sockets, serverNow, lastMsg>>
    /\ UNCHANGED <<replicaVars, syncVars, reqs, peerState, accepted, lastShake, localNow,
                   announceVars, restVars>>

PushStateRequest == (\E ws \in Sockets : Room(ws) /\ StateRequest(ws)) /\ UNCHANGED pushClientVars

PushAdd ==
    /\ \E ws \in Sockets, payload \in PushAdds : Room(ws) /\ PlayerAdd(ws, payload)
    /\ UNCHANGED pushClientVars

PushRemove ==
    /\ \E ws \in Sockets, id \in PushRemoves : Room(ws) /\ PlayerRemove(ws, id)
    /\ UNCHANGED pushClientVars

PushStart ==
    /\ \E ws \in Sockets, payload \in PushStarts : Room(ws) /\ RallyStart(ws, payload)
    /\ UNCHANGED pushClientVars

PushEnd == (\E ws \in Sockets : Room(ws) /\ RallyEnd(ws)) /\ UNCHANGED pushClientVars

\* the second client's handleMessage(e) for a frame of the server
PeerHandleMessage(frame) ==
    IF frame.type = "STATE"
    THEN peerState' = [players |-> frame.payload.players, rally |-> frame.payload.rally]
    ELSE UNCHANGED peerState

\* the oldest frame in flight to a socket reaches its client
PushDeliver ==
    /\ \E ws \in sockets \ broken :
          /\ outbox[ws] # <<>>
          /\ outbox' = [outbox EXCEPT ![ws] = Tail(@)]
          /\ IF ws = "ws1"
             THEN ClientHandleMessage(Head(outbox[ws])) /\ UNCHANGED peerState
             ELSE /\ PeerHandleMessage(Head(outbox[ws]))
                  /\ UNCHANGED <<replicaVars, syncVars, accepted, lastShake, announceVars,
                                 discarded>>
    /\ UNCHANGED <<loaded, players, rally, lastActiveAt, stored, sockets, serverNow, lastMsg>>
    /\ UNCHANGED <<reqs, broken, localNow, settingVars, sessionVars, heapVars, lastFrom, callVars>>

PushNext ==
    \/ PushConnect \/ PushClose \/ PushBreak \/ PushStateRequest \/ PushAdd
    \/ PushRemove \/ PushStart \/ PushEnd \/ PushDeliver

SpecPush == PushInit /\ [][PushNext]_vars

(***************************************************************************)
(* SpecVoice: the announcements of one client.  The room holds player p1   *)
(* and two open sockets: ws1 is the client, ws2 another one.  The clocks   *)
(* agree and move in steps of the tick interval; a rally started with the  *)
(* 5 min duration and a pre-delay of 4400 ms has its rally start 4400 ms   *)
(* ahead, just outside the trigger window.                                 *)
(***************************************************************************)
\* the instant the run of SpecVoice stops at
MaxVoiceTime == 1400
\* frames of the client the server has not handled yet
MaxVoiceReqs == 1

VoiceStart == 1000
TickMs == 200
VoicePlayer == [id |-> "p1", marchMs |-> 1000]
VoiceRoom(t) == [players |-> <<VoicePlayer>>, rally |-> <<>>, lastActiveAt |-> t]

\* sendRallyStart(): payload { starterId, rallyDurationMs, preDelayMs } with
\* delay minutes and a pre-delay of 4.4 s
VoiceStartPayload(delayMin) ==
    <<[starterId |-> "p1", launchAt |-> <<>>,
       rallyDurationMs |-> <<RallyDurationOf(delayMin)>>, preDelayMs |-> <<4400>>]>>

VoiceSpecInit ==
    /\ localNow = VoiceStart
    /\ serverNow = VoiceStart
    /\ loaded = TRUE
    /\ players = VoiceRoom(serverNow).players
    /\ rally = VoiceRoom(serverNow).rally
    /\ lastActiveAt = serverNow
    /\ stored = <<VoiceRoom(serverNow)>>
    /\ sockets = {"ws1", "ws2"}
    /\ outbox = [s \in Sockets |-> <<>>]
    /\ lastMsg = <<>>
    /\ state = [players |-> players, rally |-> rally]
    /\ now = Twice(localNow)
    /\ delay = 5
    /\ SyncInit
    /\ reqs = <<>>
    /\ broken = {}
    /\ peerState = [players |-> players, rally |-> rally]
    /\ lastFrom = ""
    /\ VoiceInit
    /\ SessionOpen
    /\ HeapInit

voiceRest == <<sessionVars, heapVars, discarded, lastFrom, callVars>>

\* the tick interval passes on both clocks
VoiceAdvance ==
    /\ localNow + TickMs <= MaxVoiceTime
    /\ localNow' = localNow + TickMs
    /\ serverNow' = serverNow + TickMs
    /\ UNCHANGED <<loaded, players, rally, lastActiveAt, stored, sockets, outbox,
                   replicaVars, syncVars, netVars, histVars, announceVars, restVars>>

\* the Start Rally button: startRally() -> sendRallyStart()
VoiceStartRally ==
    /\ readyState = "OPEN"
    /\ "p1" \in Ids(state.players)
    /\ Len(reqs) < MaxVoiceReqs
    /\ reqs' = Append(reqs, [type |-> "RALLY_START", payload |-> VoiceStartPayload(delay)])
    /\ UNCHANGED <<serverVars, replicaVars, syncVars, broken, peerState, histVars, localNow,
                   announceVars, restVars>>

\* the End Rally button, shown while rallyComputed is there: endRally()
endRally ==
    /\ readyState = "OPEN"
    /\ rallyComputed # <<>>
    /\ Len(reqs) < MaxVoiceReqs
    /\ reqs' = Append(reqs, [type |-> "RALLY_END", payload |-> <<>>])
    /\ announced' = {}
    /\ UNCHANGED <<serverVars, replicaVars, syncVars, broken, peerState, histVars, localNow,
                   called, beeps, restVars>>

\* the server handles the client's oldest frame
VoiceServe ==
    /\ reqs # <<>>
    /\ Delivered
    /\ IF Head(reqs).type = "RALLY_START"
       THEN RallyStart("ws1", Head(reqs).payload)
       ELSE RallyEnd("ws1")
    /\ reqs' = Tail(reqs)
    /\ UNCHANGED <<replicaVars, syncVars, broken, peerState, accepted, lastShake, localNow,
                   announceVars, restVars>>

\* the server handles a frame of the other client: it ends the rally, removes
\* the starter or adds it again
VoicePeer ==
    /\ Delivered
    /\ \/ RallyEnd("ws2")
       \/ PlayerRemove("ws2", "p1")
       \/ PlayerAdd("ws2", <<VoicePlayer>>)
    /\ UNCHANGED <<replicaVars, syncVars, reqs, broken, peerState, accepted, lastShake,
                   localNow, announceVars, restVars>>

\* the three checkboxes and the player checkbox: setTtsEnabled, setTtsRallyCalls,
\* setTtsMarchCalls, toggleNotifyPlayer; the effect runs with the new settings
VoiceToggle ==
    /\ \E cfg \in {[Settings EXCEPT !.ttsEnabled = ~@],
                    [Settings EXCEPT !.ttsRallyCalls = ~@],
                    [Settings EXCEPT !.ttsMarchCalls = ~@],
                    [Settings EXCEPT !.selectedIds =
                        IF "p1" \in @ THEN @ \ {"p1"} ELSE @ \cup {"p1"}]} :
          /\ ttsEnabled' = cfg.ttsEnabled
          /\ ttsRallyCalls' = cfg.ttsRallyCalls
          /\ ttsMarchCalls' = cfg.ttsMarchCalls
          /\ selectedIds' = cfg.selectedIds
          /\ AnnounceEffect(state, now, delay, cfg, called)
    /\ UNCHANGED <<serverVars, replicaVars, syncVars, netVars, histVars, localNow, voiceRest>>

VoiceDelay == \E d \in {5, 10} : SetDelay(d)

VoiceNext ==
    \/ VoiceAdvance
    \/ Tick
    \/ VoiceStartRally
    \/ endRally
    \/ VoiceServe
    \/ VoicePeer
    \/ PushDeliver
    \/ VoiceToggle
    \/ VoiceDelay

SpecVoice == VoiceSpecInit /\ [][VoiceNext]_vars

(***************************************************************************)
(* SpecCue: scheduleBeepsToTarget alone, as callNameWithBeeps calls it.    *)
(* Times are half-milliseconds, as now is; the audio clock currentTime is  *)
(* unrelated to Date.now().  The target lies between 5 ms behind and       *)
(* some seconds ahead of nowTs.                                            *)
(***************************************************************************)
\* spacingSec = 0.75, leadSec = 5 * 0.75, freqCount = 720, freqGo = 1100,
\* the 0.02 and the 0.01 of the function, the four times in ms
spacingSec == 750
leadSec == 5 * spacingSec
freqCount == 720
freqGo == 1100
soonestSec == 20
beforeGoSec == 10

\* the filter without its x.t >= startTime half
ScheduleBeepsToTarget_NoStart(targetTs, nowTs, currentTime) ==
    LET secUntilTarget == Max(0, Twice(targetTs) - nowTs)
        base == currentTime + secUntilTarget
        goTime == Max(currentTime + Twice(soonestSec), base)
        times == [i \in 1..5 |-> goTime - (6 - i) * Twice(spacingSec)]
        Kept(t) == t <= goTime - Twice(beforeGoSec)
        filtered == SelectSeq(times, Kept)
    IN  [j \in 1..Len(filtered) |-> [t |-> filtered[j], freq |-> freqCount]]
            \o <<[t |-> goTime, freq |-> freqGo]>>

\* the beepAt calls of scheduleBeepsToTarget(targetTs, nowTs), in order, with
\* an AudioContext whose currentTime is the one given; times, pushed for
\* i = 5 .. 1, is listed here as filter().sort() leaves it, earliest first
ScheduleBeepsToTarget(targetTs, nowTs, currentTime) ==
    LET secUntilTarget == Max(0, Twice(targetTs) - nowTs)
        base == currentTime + secUntilTarget
        first == base - Twice(leadSec)
        startTime == Max(currentTime + Twice(soonestSec), first)
        goTime == Max(currentTime + Twice(soonestSec), base)
        times == [i \in 1..5 |-> goTime - (6 - i) * Twice(spacingSec)]
        Kept(t) == t >= startTime /\ t <= goTime - Twice(beforeGoSec)
        filtered == SelectSeq(times, Kept)
    IN  [j \in 1..Len(filtered) |-> [t |-> filtered[j], freq |-> freqCount]]
            \o <<[t |-> goTime, freq |-> freqGo]>>

MaxCueSteps == 1800
MaxCueClock == 1

CueTarget == 5000
\* nowTs, every 2.5 ms from 5 ms after the target back to 4.5 s before it
CueNows == {Twice(CueTarget) - 5 * k : k \in (0 - 2)..MaxCueSteps}
\* ctx.currentTime, in steps of 3.5 ms
CueClocks == {7 * k : k \in 0..MaxCueClock}

CueInit ==
    /\ ServerInit
    /\ serverNow = 0
    /\ localNow = 0
    /\ ReplicaInit
    /\ SyncInit
    /\ NetInit
    /\ VoiceInit
    /\ SessionOpen
    /\ HeapInit

\* scheduleBeepsToTarget(targetTs, nowTs, ...) of callNameWithBeeps, once
CueSchedule ==
    /\ beeps = <<>>
    /\ \E nowTs \in CueNows, currentTime \in CueClocks :
          beeps' = <<[targetTs |-> CueTarget, nowTs |-> nowTs, currentTime |-> currentTime,
                      calls |-> ScheduleBeepsToTarget(CueTarget, nowTs, currentTime)]>>
    /\ UNCHANGED <<serverVars, replicaVars, syncVars, netVars, histVars, localNow,
                   announced, called, restVars>>

CueNext ==
    \/ CueSchedule

SpecCue == CueInit /\ [][CueNext]_vars

(***************************************************************************)
(* SpecMarch: the announcement effect over the two windows of a rally.     *)
(* The replica holds a rally of starter p1 (march 6400 ms) with p2 (march  *)
(* 2200 ms), so p2 starts 4200 ms after launch.  A run begins either       *)
(* 5400 ms before p1's rally start (5 min before launch) or 1200 ms before *)
(* launch, with the checkboxes in any position, and the clocks move in     *)
(* steps of 1200 ms; ticks, STATE frames that repeat the snapshot, the     *)
(* checkboxes, the duration buttons and End Rally come in any order.       *)
(***************************************************************************)
MaxMarchSteps == 6

MarchStep == 1200
MarchLaunch == 305400
MarchPlayers == <<[id |-> "p1", marchMs |-> 6400], [id |-> "p2", marchMs |-> 2200]>>
MarchSnapshot ==
    [players |-> MarchPlayers, rally |-> <<[starterId |-> "p1", launchAt |-> MarchLaunch]>>]
\* the instants a run begins at
MarchOrigins == {MarchLaunch - RallyDurationOf(5) - 5400, MarchLaunch - MarchStep}

MarchInit ==
    /\ localNow \in MarchOrigins
    /\ serverNow = localNow
    /\ loaded = TRUE
    /\ players = MarchSnapshot.players
    /\ rally = MarchSnapshot.rally
    /\ lastActiveAt = serverNow
    /\ stored = <<[players |-> players, rally |-> rally, lastActiveAt |-> lastActiveAt]>>
    /\ sockets = {"ws1"}
    /\ outbox = [s \in Sockets |-> <<>>]
    /\ lastMsg = <<>>
    /\ state = MarchSnapshot
    /\ now = Twice(localNow)
    /\ delay = 5
    /\ SyncInit
    /\ NetInit
    /\ announced = {}
    /\ called = <<>>
    /\ beeps = <<>>
    /\ ttsEnabled \in BOOLEAN
    /\ ttsRallyCalls \in BOOLEAN
    /\ ttsMarchCalls \in BOOLEAN
    /\ selectedIds \in {{}, {"p2"}}
    /\ SessionOpen
    /\ HeapInit

\* a run that begins shortly before launch
MarchLiveInit ==
    /\ MarchInit
    /\ localNow = MarchLaunch - MarchStep

\* MarchStep passes on both clocks
MarchAdvance ==
    /\ \E o \in MarchOrigins :
          localNow >= o /\ localNow + MarchStep <= o + MaxMarchSteps * MarchStep
    /\ localNow' = localNow + MarchStep
    /\ serverNow' = serverNow + MarchStep
    /\ UNCHANGED <<loaded, players, rally, lastActiveAt, stored, sockets, outbox,
                   replicaVars, syncVars, netVars, histVars, announceVars, restVars>>

\* a STATE frame that repeats the snapshot arrives
MarchState ==
    /\ HandleState(MarchSnapshot)
    /\ UNCHANGED <<serverVars, syncVars, netVars, histVars, localNow, restVars>>

MarchNext ==
    \/ MarchAdvance
    \/ Tick
    \/ MarchState
    \/ VoiceToggle
    \/ VoiceDelay
    \/ endRally

SpecMarch == MarchInit /\ [][MarchNext]_vars

\* the part of Tick that sets now; no other step of MarchNext changes now
TickSetsNow == tickInterval /\ now' = Twice(localNow) + offsetRef

\* time passes, and the 200 ms interval fires: a tick that would change now is
\* not put off for ever (WF_vars(Tick), stated on the variable Tick sets)
SpecMarchLive ==
    MarchLiveInit /\ [][MarchNext]_vars /\ WF_vars(MarchAdvance) /\ WF_now(TickSetsNow)

(***************************************************************************)
(* SpecAsync: fetch and handleMessage as the async functions they are.  A  *)
(* call runs until it awaits a storage operation and goes on when the      *)
(* operation has settled; calls that are suspended go on in any order, and *)
(* new calls start meanwhile.  storage.get yields the value stored when it *)
(* was issued, storage.put stores the value this.data has when it is       *)
(* called.  The object starts with this.data = null, with nothing stored   *)
(* or with the room an earlier PLAYER_ADD of p1 has left.                  *)
(***************************************************************************)
MaxCalls == 4

AsyncNow == 1
AsyncP1 == [id |-> "p1", marchMs |-> 1]
AsyncP2 == [id |-> "p2", marchMs |-> 2]
AsyncAddP1 == [type |-> "PLAYER_ADD", payload |-> <<AsyncP1>>]
AsyncAddP2 == [type |-> "PLAYER_ADD", payload |-> <<AsyncP2>>]
AsyncRemoveP1 == [type |-> "PLAYER_REMOVE", payload |-> "p1"]
AsyncStartP1 ==
    [type |-> "RALLY_START",
     payload |-> <<[starterId |-> "p1", launchAt |-> <<5>>,
                    rallyDurationMs |-> <<>>, preDelayMs |-> <<>>]>>]

\* this.data
CurRoom == [players |-> players, rally |-> rally, lastActiveAt |-> lastActiveAt]

\* the room after the case of the switch for frame m, a frame the case accepts
AsyncMutated(room, m) ==
    IF m.type = "PLAYER_ADD" THEN [room EXCEPT !.players = Upsert(@, m.payload[1])]
    ELSE IF m.type = "PLAYER_REMOVE" THEN RemoveFrom(room, m.payload)
    ELSE [room EXCEPT !.rally = <<[starterId |-> m.payload[1].starterId,
                                   launchAt |-> LaunchOf(m.payload[1], serverNow)[1]]>>]

AsyncInit ==
    /\ loaded = FALSE
    /\ players = <<>>
    /\ rally = <<>>
    /\ lastActiveAt = 0
    /\ \/ stored = <<>> /\ applied = <<>>
       \/ /\ stored = <<[players |-> <<AsyncP1>>, rally |-> <<>>, lastActiveAt |-> AsyncNow]>>
          /\ applied = <<AsyncAddP1>>
    /\ sockets = {}
    /\ outbox = [s \in Sockets |-> <<>>]
    /\ lastMsg = <<>>
    /\ serverNow = AsyncNow
    /\ localNow = 0
    /\ ReplicaInit
    /\ SyncInit
    /\ NetInit
    /\ VoiceInit
    /\ SessionInit
    /\ defaultPlayers = <<>>
    /\ sharesDefault = FALSE
    /\ other = [loaded |-> FALSE, shares |-> FALSE, players |-> <<>>]
    /\ started = <<>>

asyncRest ==
    <<serverNow, lastMsg, replicaVars, syncVars, netVars, accepted, lastShake, localNow,
      announceVars, settingVars, sessionVars, discarded, lastFrom, other>>

\* call i of cs goes on after `await this.ensureLoaded()` with this.data = room,
\* the storage holding storage and the players array being that of
\* DEFAULT_STATE or not: fetch accepts the socket and sends the state and is
\* done; handleMessage sets lastActiveAt, runs the case of the switch, calls
\* persist() and is suspended at its storage.put
AsyncContinue(cs, i, room, storage, shares) ==
    /\ loaded' = TRUE
    /\ IF cs[i].kind = "fetch"
       THEN /\ players' = room.players
            /\ rally' = room.rally
            /\ lastActiveAt' = room.lastActiveAt
            /\ stored' = storage
            /\ sockets' = sockets \cup {cs[i].ws}
            /\ outbox' = SendTo(cs[i].ws, StateFrame(room))
            /\ started' = [cs EXCEPT ![i].pc = "done"]
            /\ applied' = applied
            /\ sharesDefault' = shares
            /\ defaultPlayers' = defaultPlayers
       ELSE \E new \in {AsyncMutated([room EXCEPT !.lastActiveAt = serverNow], cs[i].msg[1])} :
            /\ players' = new.players
            /\ rally' = new.rally
            /\ lastActiveAt' = new.lastActiveAt
            /\ stored' = <<new>>
            /\ UNCHANGED <<sockets, outbox>>
            /\ started' = [cs EXCEPT ![i].pc = "put"]
            /\ applied' = Append(applied, cs[i].msg[1])
            /\ sharesDefault' = (shares /\ cs[i].msg[1].type # "PLAYER_REMOVE")
            /\ defaultPlayers' = IF shares /\ cs[i].msg[1].type = "PLAYER_ADD"
                                 THEN new.players ELSE defaultPlayers
    /\ UNCHANGED asyncRest

\* a call starts: `if (this.data) return` lets it go on at once, else it
\* issues storage.get and is suspended
AsyncEnter(c) ==
    /\ Len(started) < MaxCalls
    /\ IF loaded
       THEN AsyncContinue(Append(started, c), Len(started) + 1, CurRoom, stored, sharesDefault)
       ELSE /\ started' = Append(started, [c EXCEPT !.pc = "get", !.got = stored])
            /\ UNCHANGED <<loaded, players, rally, lastActiveAt, stored, sockets, outbox,
                           applied, sharesDefault, defaultPlayers, asyncRest>>

\* fetch() with Upgrade: websocket
AsyncFetch(ws) ==
    /\ ws \notin sockets
    /\ \A i \in 1..Len(started) : ~(started[i].kind = "fetch" /\ started[i].ws = ws)
    /\ AsyncEnter([kind |-> "fetch", ws |-> ws, msg |-> <<>>, pc |-> "new", got |-> <<>>])

\* a frame of an accepted socket reaches the message listener
AsyncMessage(ws, m) ==
    /\ Arrives(ws)
    /\ AsyncEnter([kind |-> "message", ws |-> ws, msg |-> <<m>>, pc |-> "new", got |-> <<>>])

\* the read of call i has settled: the rest of ensureLoaded, which assigns
\* this.data whatever this.data has become meanwhile, and if it does not
\* persist the rest of the call up to its next await
AsyncGot(i) ==
    /\ started[i].pc = "get"
    /\ IF started[i].got # <<>> /\ ~TooOld(started[i].got[1], serverNow)
       THEN AsyncContinue(started, i, started[i].got[1], stored, FALSE)
       ELSE /\ loaded' = TRUE
            /\ players' = DefaultRoom(serverNow).players
            /\ rally' = DefaultRoom(serverNow).rally
            /\ lastActiveAt' = DefaultRoom(serverNow).lastActiveAt
            /\ stored' = <<DefaultRoom(serverNow)>>
            /\ sharesDefault' = TRUE
            /\ started' = [started EXCEPT ![i].pc = "loaded"]
            /\ UNCHANGED <<sockets, outbox, applied, defaultPlayers, asyncRest>>

\* the put of ensureLoaded's persist() has settled: ensureLoaded returns
AsyncLoaded(i) ==
    /\ started[i].pc = "loaded"
    /\ AsyncContinue(started, i, CurRoom, stored, sharesDefault)

\* the put of the handler's persist() has settled: this.broadcast(); return
AsyncPut(i) ==
    /\ started[i].pc = "put"
    /\ outbox' = Broadcast(CurRoom)
    /\ started' = [started EXCEPT ![i].pc = "done"]
    /\ UNCHANGED <<loaded, players, rally, lastActiveAt, stored, sockets, applied,
                   sharesDefault, defaultPlayers, asyncRest>>

AsyncNext ==
    \/ \E ws \in Sockets : AsyncFetch(ws)
    \/ \E ws \in Sockets : AsyncMessage(ws, AsyncAddP2)
    \/ \E ws \in Sockets : AsyncMessage(ws, AsyncRemoveP1)
    \/ \E ws \in Sockets : AsyncMessage(ws, AsyncStartP1)
    \/ \E i \in 1..Len(started) : AsyncGot(i)
    \/ \E i \in 1..Len(started) : AsyncLoaded(i)
    \/ \E i \in 1..Len(started) : AsyncPut(i)

SpecAsync == AsyncInit /\ [][AsyncNext]_vars


(***************************************************************************)
(* Claims about the estimator (SpecWindow).                                *)
(***************************************************************************)
MinOf(a, b) == IF a <= b THEN a ELSE b

\* the operative offset after folding the replies of arrival, one by one, into
\* an empty window (0 before the first reply)
RECURSIVE FoldWindow(_, _)
FoldWindow(window, arrival) ==
    IF arrival = <<>> THEN window
    ELSE FoldWindow(PushSample(window, Head(arrival)), Tail(arrival))

FoldOffset(arrival) ==
    IF arrival = <<>> THEN 0 ELSE BestSample(FoldWindow(<<>>, arrival)).offsetMs

\* C2: once a reply has been folded, the operative offset (offsetRef and the
\* timeOffsetMs state, with bestRttMs) is that of the retained sample with the
\* least rttMs, and among several with the least rttMs of the earliest arrived.
C2_MinRttOffset ==
    syncSamples # <<>> =>
        \E i \in 1..Len(syncSamples) :
            /\ \A j \in 1..Len(syncSamples) : syncSamples[i].rttMs <= syncSamples[j].rttMs
            /\ \A j \in 1..(i - 1) : syncSamples[i].rttMs < syncSamples[j].rttMs
            /\ offsetRef = syncSamples[i].offsetMs
            /\ timeOffsetMs = syncSamples[i].offsetMs
            /\ bestRttMs = <<syncSamples[i].rttMs>>

\* C2 witness: a full window in which the least RTT occurs twice with different
\* offsets, neither first nor last, and the earlier one is operative
C2_Witness ==
    /\ Len(syncSamples) = SYNC_SAMPLE_COUNT
    /\ syncSamples[1].rttMs = 2
    /\ syncSamples[2].rttMs = 1
    /\ syncSamples[4].rttMs = 1
    /\ syncSamples[6].rttMs = 2
    /\ syncSamples[2].offsetMs # syncSamples[4].offsetMs
    /\ offsetRef = syncSamples[2].offsetMs

\* C3 as claimed: up to a full window of replies, every arrival order of the
\* same samples ends with the same operative offset.
C3_AnyOrderSameOffset ==
    Len(accepted) <= SYNC_SAMPLE_COUNT =>
        \A perm \in Permutations(1..Len(accepted)) :
            FoldOffset([i \in 1..Len(accepted) |-> accepted[perm[i]]]) = offsetRef

\* the samples of least RTT all carry the same offset
MinRttOffsetsAgree(arrival) ==
    \A i, j \in 1..Len(arrival) :
        (/\ \A k \in 1..Len(arrival) : arrival[i].rttMs <= arrival[k].rttMs
         /\ arrival[j].rttMs = arrival[i].rttMs)
        => arrival[j].offsetMs = arrival[i].offsetMs

\* C3 amended: up to a full window of replies whose least-RTT samples all carry
\* the same offset, every arrival order ends with the same operative offset.
C3_OrderIndependentUpToTies ==
    (Len(accepted) <= SYNC_SAMPLE_COUNT /\ MinRttOffsetsAgree(accepted)) =>
        \A perm \in Permutations(1..Len(accepted)) :
            FoldOffset([i \in 1..Len(accepted) |-> accepted[perm[i]]]) = offsetRef

\* C3 witness: six replies, the least RTT neither first nor last, a larger RTT
\* with another offset before and after it
C3_Witness ==
    /\ Len(accepted) = SYNC_SAMPLE_COUNT
    /\ MinRttOffsetsAgree(accepted)
    /\ accepted[1].rttMs = 2
    /\ accepted[3].rttMs = 1
    /\ accepted[5].rttMs = 1
    /\ accepted[6].rttMs = 2
    /\ accepted[1].offsetMs # accepted[3].offsetMs
    /\ accepted[6].offsetMs # accepted[3].offsetMs
    /\ offsetRef = accepted[3].offsetMs

\* C4: after n folded replies the window is the last min(n, 6) of them in
\* arrival order (so never more than 6), and the operative offset is the offset
\* of one of those: a sample with 6 newer ones behind it no longer counts.
C4_TrailingWindow ==
    LET n == Len(accepted)
        w == Len(syncSamples)
    IN  /\ w = MinOf(n, SYNC_SAMPLE_COUNT)
        /\ \A i \in 1..w : syncSamples[i] = accepted[n - w + i]
        /\ n > 0 => \E i \in (n - w + 1)..n : offsetRef = accepted[i].offsetMs

\* C4 witness: seven replies, the first had the only least RTT and was evicted,
\* and the operative offset is no longer its offset
C4_Witness ==
    /\ Len(accepted) = SYNC_SAMPLE_COUNT + 1
    /\ accepted[1].rttMs = 1
    /\ \A i \in 2..Len(accepted) : accepted[i].rttMs = 2
    /\ Len(syncSamples) = SYNC_SAMPLE_COUNT
    /\ syncSamples[1] = accepted[2]
    /\ offsetRef # accepted[1].offsetMs

(***************************************************************************)
(* Claims about the schedule (SpecRally).                                  *)
(***************************************************************************)
\* C1: in every computed result each player of the replica has a row, and the
\* row's startAt plus that player's marchMs is arrivalAt, which is also the
\* starter's startAt plus the starter's marchMs: all land at the same instant.
C1_LandingAlignment ==
    rallyComputed # <<>> =>
        LET rc == rallyComputed[1]
            S == FindPlayer(state.players, state.rally[1].starterId)[1]
        IN  /\ Len(rc.rows) = Len(state.players)
            /\ \A i \in 1..Len(state.players) :
                  \E k \in 1..Len(rc.rows) :
                      /\ rc.rows[k].id = state.players[i].id
                      /\ rc.rows[k].startAt + state.players[i].marchMs = rc.arrivalAt
            /\ \E k \in 1..Len(rc.rows) :
                  /\ rc.rows[k].id = S.id
                  /\ rc.rows[k].startAt + S.marchMs = rc.arrivalAt
                  /\ \A j \in 1..Len(rc.rows) :
                        rc.rows[j].startAt + rc.rows[j].marchMs
                            = rc.rows[k].startAt + S.marchMs

\* C1 witness: two players with different marches, the starter's the shorter and
\* not zero, so the other player starts before launch
C1_Witness ==
    /\ rallyComputed # <<>>
    /\ Len(state.players) = 2
    /\ rallyComputed[1].starter.marchMs = 1
    /\ \E k \in 1..2 : rallyComputed[1].rows[k].marchMs = 3
    /\ rallyComputed[1].rows[1].startAt < rallyComputed[1].launchAt

\* C6: with a rally whose starter exists, the phase is JOIN or MARCH, JOIN
\* exactly when the corrected now is before launchAt and MARCH exactly when it
\* is at or after launchAt.
C6_PhaseClassification ==
    rallyComputed # <<>> =>
        LET phase == rallyComputed[1].phase
            launchAt == state.rally[1].launchAt
        IN  /\ phase \in {"JOIN", "MARCH"}
            /\ phase = "JOIN" <=> now < Twice(launchAt)
            /\ phase = "MARCH" <=> now >= Twice(launchAt)

\* C6 witness: the tick that lands exactly on launchAt with a moved offset
C6_Witness ==
    /\ rallyComputed # <<>>
    /\ offsetRef # 0
    /\ now = Twice(state.rally[1].launchAt)
    /\ rallyComputed[1].phase = "MARCH"

\* the row of rc.rows computed for the player with this id
RowFor(rc, id) == rc.rows[CHOOSE k \in 1..Len(rc.rows) : rc.rows[k].id = id]

\* C11: the rally computation yields null exactly when the replica has no rally
\* or the rally's starterId matches no player of the replica; otherwise it
\* yields a result with exactly one row for each player.
C11_NullIffNoStarter ==
    /\ rallyComputed = <<>>
          <=> (state.rally = <<>> \/ state.rally[1].starterId \notin Ids(state.players))
    /\ rallyComputed # <<>> =>
          /\ Len(rallyComputed[1].rows) = Len(state.players)
          /\ \A i \in 1..Len(state.players) :
                Cardinality({k \in 1..Len(rallyComputed[1].rows) :
                                rallyComputed[1].rows[k].id = state.players[i].id}) = 1

\* C11 witness: a rally whose starter is not among the two players of the
\* replica, so nothing is computed although a rally is there
C11_Witness ==
    /\ state.rally # <<>>
    /\ Len(state.players) = 2
    /\ state.rally[1].starterId \notin Ids(state.players)
    /\ rallyComputed = <<>>

\* C12: for a computed rally, rallyStartAt = launchAt - rallyDurationMs,
\* arrivalAt = launchAt + S.marchMs, and for each player P the row has
\* startAt = arrivalAt - P.marchMs, rallyStartAt = startAt - rallyDurationMs,
\* diffMs = startAt - now, diffToRallyStartMs = rallyStartAt - now and
\* landInMs = arrivalAt - now, signed: negative once the instant has passed.
C12_TimelineArithmetic ==
    rallyComputed # <<>> =>
        LET rc == rallyComputed[1]
            launchAt == state.rally[1].launchAt
            S == FindPlayer(state.players, state.rally[1].starterId)[1]
            rallyDurationMs == delay * 60 * 1000
        IN  /\ rc.launchAt = launchAt
            /\ rc.rallyStartAt = launchAt - rallyDurationMs
            /\ rc.arrivalAt = launchAt + S.marchMs
            /\ rc.joinRemainingMs = Twice(launchAt) - now
            /\ \A i \in 1..Len(state.players) :
                  LET P == state.players[i]
                      r == RowFor(rc, P.id)
                  IN  /\ r.startAt = launchAt + S.marchMs - P.marchMs
                      /\ r.rallyStartAt = launchAt + S.marchMs - P.marchMs - rallyDurationMs
                      /\ r.diffMs = Twice(launchAt + S.marchMs - P.marchMs) - now
                      /\ r.diffToRallyStartMs
                            = Twice(launchAt + S.marchMs - P.marchMs - rallyDurationMs) - now
                      /\ r.landInMs = Twice(launchAt + S.marchMs) - now

\* C12 witness: with the 10 minute duration and a moved offset, a player whose
\* start instant has passed (negative diffMs) while the landing is still ahead
C12_Witness ==
    /\ rallyComputed # <<>>
    /\ delay = 10
    /\ offsetRef # 0
    /\ \E k \in 1..Len(rallyComputed[1].rows) :
          /\ rallyComputed[1].rows[k].diffMs < 0
          /\ rallyComputed[1].rows[k].diffToRallyStartMs < 0
          /\ rallyComputed[1].rows[k].landInMs > 0

\* the offset-from-launch part of C13
DiffFromLaunchOf(rc) ==
    \A i \in 1..Len(state.players) :
        LET P == state.players[i]
            r == RowFor(rc, P.id)
        IN  /\ r.diffFromLaunchMs = rc.starter.marchMs - P.marchMs
            /\ P.id = rc.starter.id => (r.diffFromLaunchMs = 0 /\ r.startAt = rc.launchAt)
            /\ r.diffFromLaunchMs < 0 <=> P.marchMs > rc.starter.marchMs

\* C13 as claimed: diffFromLaunchMs = S.marchMs - P.marchMs, 0 for the starter's
\* row, negative exactly for a march longer than the starter's, and the
\* "(before March)" flag is shown exactly for those rows.
C13_FlagIffLongerMarch ==
    rallyComputed # <<>> =>
        /\ DiffFromLaunchOf(rallyComputed[1])
        /\ \A k \in 1..Len(rallyComputed[1].rows) :
              BeforeMarchShown(rallyComputed[1].rows[k], rallyComputed[1].phase)
                <=> rallyComputed[1].rows[k].marchMs > rallyComputed[1].starter.marchMs

\* C13 amended: the same arithmetic, and the flag is shown exactly for the rows
\* of a longer march while the phase is JOIN; in the MARCH phase it is not shown.
C13_FlagIffLongerMarchInJoin ==
    rallyComputed # <<>> =>
        /\ DiffFromLaunchOf(rallyComputed[1])
        /\ \A k \in 1..Len(rallyComputed[1].rows) :
              BeforeMarchShown(rallyComputed[1].rows[k], rallyComputed[1].phase)
                <=> (/\ rallyComputed[1].phase = "JOIN"
                     /\ rallyComputed[1].rows[k].marchMs > rallyComputed[1].starter.marchMs)

\* C13 witness: in the JOIN phase the starter's row is at launch without the
\* flag and the row of the longer march is flagged
C13_Witness ==
    /\ rallyComputed # <<>>
    /\ rallyComputed[1].phase = "JOIN"
    /\ Len(rallyComputed[1].rows) = 2
    /\ BeforeMarchShown(rallyComputed[1].rows[1], "JOIN")
    /\ rallyComputed[1].rows[2].id = rallyComputed[1].starter.id
    /\ rallyComputed[1].rows[2].diffFromLaunchMs = 0
    /\ ~BeforeMarchShown(rallyComputed[1].rows[2], "JOIN")

\* C14: the rows are the players of the replica, each once, in ascending order
\* of startAt (so never a shorter march before a longer one), and players of
\* equal startAt keep the order they have in the player list.
C14_RowsSortedStable ==
    rallyComputed # <<>> =>
        LET rows == rallyComputed[1].rows
            pos(id) == CHOOSE i \in 1..Len(state.players) : state.players[i].id = id
        IN  /\ Len(rows) = Len(state.players)
            /\ {[id |-> rows[k].id, marchMs |-> rows[k].marchMs] : k \in 1..Len(rows)}
                  = {state.players[i] : i \in 1..Len(state.players)}
            /\ \A j, k \in 1..Len(rows) :
                  j < k =>
                    /\ rows[j].startAt <= rows[k].startAt
                    /\ rows[j].marchMs >= rows[k].marchMs
                    /\ rows[j].startAt = rows[k].startAt => pos(rows[j].id) < pos(rows[k].id)

\* the later player of the list has the longer march and its row comes first
C14_LongerMarchFirst ==
    /\ rallyComputed # <<>>
    /\ Len(state.players) = 2
    /\ state.players[2].marchMs > state.players[1].marchMs
    /\ rallyComputed[1].rows[1].id = state.players[2].id

\* C14 witness: two players of equal march, hence equal startAt, whose rows
\* keep the order of the player list
C14_Witness ==
    /\ rallyComputed # <<>>
    /\ Len(state.players) = 2
    /\ state.players[1].marchMs = state.players[2].marchMs
    /\ rallyComputed[1].rows[1].id = state.players[1].id
    /\ rallyComputed[1].rows[1].startAt = rallyComputed[1].rows[2].startAt

(***************************************************************************)
(* Claims about the handshake and the phase across ticks (SpecSync).       *)
(***************************************************************************)
\* C5: when the request and the reply of a handshake took the same time d, the
\* server's clock being theta ahead of the client's, the sample folded from
\* the reply has offset theta and rtt 2 * d, whatever the server's processing
\* time t2 - t1.
C5_SymmetricDelayExact ==
    lastShake # <<>> =>
        LET theta == serverNow - localNow
            h == lastShake[1]
            sample == accepted[Len(accepted)]
            dRequest == (h.t1 - theta) - h.t0
            dReply == h.t3 - (h.t2 - theta)
        IN  dRequest = dReply =>
                /\ sample.offsetMs = Twice(theta)
                /\ sample.rttMs = Twice(dRequest)

\* C5 witness: a handshake with theta = 2, one millisecond each way and one
\* millisecond between t1 and t2
C5_Witness ==
    /\ lastShake # <<>>
    /\ serverNow - localNow = 2
    /\ lastShake[1].t1 - 2 - lastShake[1].t0 = 1
    /\ lastShake[1].t3 - (lastShake[1].t2 - 2) = 1
    /\ lastShake[1].t2 = lastShake[1].t1 + 1
    /\ accepted[Len(accepted)].rttMs = 2

\* the phase shown, <<>> when no rally is computed
PhaseShown == IF rallyComputed = <<>> THEN <<>> ELSE <<rallyComputed[1].phase>>

\* C7 as claimed: while the same rally stays in the replica, a step never takes
\* the phase from MARCH back to JOIN, whatever replies were folded in between.
C7_PhaseNeverBack ==
    [][(PhaseShown = <<"MARCH">> /\ state'.rally = state.rally)
        => PhaseShown' # <<"JOIN">>]_vars

\* C7 amended: while the same rally stays in the replica, a tick whose corrected
\* time is not earlier than that of the tick before never takes the phase from
\* MARCH back to JOIN.
C7_PhaseForwardWithTime ==
    [][(PhaseShown = <<"MARCH">> /\ state'.rally = state.rally /\ now' >= now)
        => PhaseShown' # <<"JOIN">>]_vars

\* C7 witness: two replies were folded, the second moved the operative offset,
\* a tick has taken the new offset and the phase is MARCH
C7_Witness ==
    /\ Len(accepted) = 2
    /\ accepted[1].offsetMs # offsetRef
    /\ now = Twice(localNow) + offsetRef
    /\ PhaseShown = <<"MARCH">>

(***************************************************************************)
(* Claims about the room (SpecServer).                                     *)
(***************************************************************************)
\* the handler of the last RALLY_START did not return early
StartAccepted(payload) ==
    /\ payload # <<>>
    /\ payload[1].starterId # ""
    /\ \/ payload[1].launchAt # <<>>
       \/ /\ FiniteNonNegative(payload[1].rallyDurationMs)
          /\ payload[1].preDelayMs = <<>> \/ FiniteNonNegative(payload[1].preDelayMs)

\* C8: after an accepted RALLY_START the rally's launchAt is the server's clock
\* at handling time plus preDelayMs plus rallyDurationMs, whatever else the
\* frame carried.
C8_LaunchAtIsServerTime ==
    (lastMsg # <<>> /\ lastMsg[1].type = "RALLY_START" /\ StartAccepted(lastMsg[1].payload)) =>
        LET payload == lastMsg[1].payload[1]
        IN  /\ rally # <<>>
            /\ payload.rallyDurationMs # <<>>
            /\ rally[1].launchAt
                 = lastActiveAt
                   + (IF payload.preDelayMs = <<>> THEN 0 ELSE payload.preDelayMs[1])
                   + payload.rallyDurationMs[1]

\* the rally names a starter that is not in the player list
DanglingRally == rally # <<>> /\ rally[1].starterId \notin Ids(players)

\* C9: a rally whose starter is not a player does not outlive one transition of
\* the room: when a transition starts with such a rally, it ends without one.
C9_NoDanglingStarter == [][DanglingRally => ~DanglingRally']_<<players, rally>>

\* C10: after PLAYER_REMOVE of the rally's starter the player is gone and the
\* rally is absent in the room, in the storage and in every STATE frame sent.
C10_StarterRemovalEndsRally ==
    (/\ lastMsg # <<>>
     /\ lastMsg[1].type = "PLAYER_REMOVE"
     /\ lastMsg[1].before.rally # <<>>
     /\ lastMsg[1].before.rally[1].starterId = lastMsg[1].payload) =>
        /\ rally = <<>>
        /\ lastMsg[1].payload \notin Ids(players)
        /\ stored # <<>> /\ stored[1].rally = <<>>
        /\ \A s \in Sockets : \A i \in 1..Len(outbox[s]) :
               /\ outbox[s][i].type = "STATE"
               /\ outbox[s][i].payload.rally = <<>>
               /\ outbox[s][i].payload.players = players

\* C10 witness: the starter p1 of a rally was removed from a room of two
\* players, and the STATE frame of that is on its way to both sockets
C10_Witness ==
    /\ lastMsg # <<>>
    /\ lastMsg[1].type = "PLAYER_REMOVE"
    /\ lastMsg[1].payload = "p1"
    /\ lastMsg[1].before.rally # <<>>
    /\ lastMsg[1].before.rally[1].starterId = "p1"
    /\ Len(lastMsg[1].before.players) = 2
    /\ Len(players) = 1
    /\ rally = <<>>
    /\ sockets = Sockets
    /\ \A s \in Sockets : Len(outbox[s]) = 1 /\ outbox[s][1].payload.rally = <<>>

\* C15: for an existing rally, a frame other than RALLY_START never changes
\* launchAt: STATE_REQUEST, TIME_SYNC_REQUEST, PLAYER_ADD, an unparsable frame
\* and PLAYER_REMOVE of another id leave the rally as it was; RALLY_END and
\* PLAYER_REMOVE of the starter leave no rally.
C15_LaunchAtFixed ==
    (lastMsg # <<>> /\ lastMsg[1].before.rally # <<>>) =>
        LET m == lastMsg[1]
            was == m.before.rally
        IN  /\ m.type \in {"STATE_REQUEST", "TIME_SYNC_REQUEST", "PLAYER_ADD", "?"} => rally = was
            /\ (m.type = "PLAYER_REMOVE" /\ m.payload # was[1].starterId) => rally = was
            /\ (m.type = "PLAYER_REMOVE" /\ m.payload = was[1].starterId) => rally = <<>>
            /\ m.type = "RALLY_END" => rally = <<>>
            /\ m.type # "RALLY_START" => (rally = <<>> \/ rally[1].launchAt = was[1].launchAt)

\* C15 witness: with a rally started by p1, the other player p2 was removed
\* at a later server time and the rally is still the same
C15_Witness ==
    /\ lastMsg # <<>>
    /\ lastMsg[1].type = "PLAYER_REMOVE"
    /\ lastMsg[1].payload = "p2"
    /\ "p2" \in Ids(lastMsg[1].before.players)
    /\ lastMsg[1].before.rally # <<>>
    /\ lastMsg[1].before.rally[1].starterId = "p1"
    /\ rally = lastMsg[1].before.rally
    /\ lastActiveAt > 0
    /\ rally[1].launchAt < lastActiveAt + 2

\* C16: no two players of the room have the same id; after an accepted
\* PLAYER_ADD whose id was in the list, the list has the same length and the
\* same players except that the payload stands where that id stood; after one
\* whose id was not in the list, the list is the old one with the payload
\* appended.
C16_UpsertById ==
    /\ \A i, j \in 1..Len(players) : players[i].id = players[j].id => i = j
    /\ (/\ lastMsg # <<>>
        /\ lastMsg[1].type = "PLAYER_ADD"
        /\ lastMsg[1].payload # <<>>
        /\ lastMsg[1].payload[1].id # "") =>
          LET p == lastMsg[1].payload[1]
              was == lastMsg[1].before.players
          IN  IF p.id \in Ids(was)
              THEN /\ Len(players) = Len(was)
                   /\ \A i \in 1..Len(was) :
                         players[i] = IF was[i].id = p.id THEN p ELSE was[i]
              ELSE players = Append(was, p)

\* C16 witness: p1, first of two players with march 1, was added again with
\* march 3 and is still first of two
C16_Witness ==
    /\ lastMsg # <<>>
    /\ lastMsg[1].type = "PLAYER_ADD"
    /\ lastMsg[1].payload = <<[id |-> "p1", marchMs |-> 3]>>
    /\ Len(lastMsg[1].before.players) = 2
    /\ lastMsg[1].before.players[1] = [id |-> "p1", marchMs |-> 1]
    /\ Len(players) = 2
    /\ players[1] = [id |-> "p1", marchMs |-> 3]
    /\ players[2] = lastMsg[1].before.players[2]

\* a step in which handleMessage ran: no socket was added, removed or broken,
\* the clock did not move and no frame was taken out of an outbox; the frame
\* it handled is lastMsg'
HandlerStep ==
    /\ sockets' = sockets
    /\ serverNow' = serverNow
    /\ broken' = broken
    /\ \A s \in Sockets : Len(outbox'[s]) >= Len(outbox[s])
    /\ lastMsg' # <<>>

\* the frames C19 lists as malformed
Malformed(m) ==
    \/ m.type = "?"
    \/ m.type = "PLAYER_ADD" /\ (m.payload = <<>> \/ m.payload[1].id = "")
    \/ m.type = "PLAYER_REMOVE" /\ m.payload = ""
    \/ m.type = "RALLY_START"
         /\ \/ m.payload = <<>>
            \/ m.payload[1].starterId = ""
            \/ ~FiniteNonNegative(m.payload[1].rallyDurationMs)
            \/ m.payload[1].preDelayMs # <<>> /\ ~FiniteNonNegative(m.payload[1].preDelayMs)
    \/ m.type = "TIME_SYNC_REQUEST" /\ m.payload = <<>>

\* C19: handling a malformed frame (unparsable, PLAYER_ADD without payload or
\* id, PLAYER_REMOVE without id, RALLY_START without starterId or with a
\* negative or non-finite duration or pre-delay, TIME_SYNC_REQUEST without a
\* finite t0) leaves players and rally unchanged and sends nothing.
C19_MalformedDropped ==
    [][(HandlerStep /\ Malformed(lastMsg'[1])) =>
          /\ players' = players
          /\ rally' = rally
          /\ outbox' = outbox]_vars

\* C20: after a PLAYER_REMOVE whose id was not in the player list, the player
\* list and the rally are what they were before it.
C20_UnknownRemoveNoEffect ==
    (/\ lastMsg # <<>>
     /\ lastMsg[1].type = "PLAYER_REMOVE"
     /\ lastMsg[1].payload \notin Ids(lastMsg[1].before.players)) =>
        /\ players = lastMsg[1].before.players
        /\ rally = lastMsg[1].before.rally

(***************************************************************************)
(* Claims about the snapshots (SpecPush).                                  *)
(***************************************************************************)
\* the frame is a mutation the handler did not return early from
AcceptedMutation(m) ==
    \/ m.type = "PLAYER_ADD" /\ m.payload # <<>> /\ m.payload[1].id # ""
    \/ m.type = "PLAYER_REMOVE" /\ m.payload # ""
    \/ m.type = "RALLY_START" /\ StartAccepted(m.payload)
    \/ m.type = "RALLY_END"

\* the room shows the effect of the mutation
Reflects(m, ps, r) ==
    /\ m.type = "PLAYER_ADD" => \E i \in 1..Len(ps) : ps[i] = m.payload[1]
    /\ m.type = "PLAYER_REMOVE" => m.payload \notin Ids(ps)
    /\ m.type = "RALLY_START" => (r # <<>> /\ r[1].starterId = m.payload[1].starterId)
    /\ m.type = "RALLY_END" => r = <<>>

\* the STATE frame of the room as the step leaves it
SnapshotAfter ==
    [type |-> "STATE",
     payload |-> [players |-> players', rally |-> rally', lastActiveAt |-> lastActiveAt']]

Connected == sockets \ broken

\* the replica of the client on socket ws
ReplicaOf(ws) == IF ws = "ws1" THEN state ELSE peerState

MalformedReply(frame) ==
    /\ frame.type = "TIME_SYNC_RESPONSE"
    /\ (frame.payload = NoPayload \/ frame.payload.nonFinite # {})

\* the client handles the oldest frame sent to it in this step, a malformed reply
HandlesMalformedReply ==
    /\ outbox["ws1"] # <<>>
    /\ outbox'["ws1"] = Tail(outbox["ws1"])
    /\ MalformedReply(Head(outbox["ws1"]))

C21_MalformedReplyDiscarded ==
    [][HandlesMalformedReply
          => UNCHANGED <<syncSamples, offsetRef, timeOffsetMs, bestRttMs, lastSyncAt>>]_vars

\* a reply with a non-finite t1 has just been dropped by a client that holds a
\* sample
C21_Witness ==
    /\ discarded # <<>>
    /\ discarded[1] # NoPayload
    /\ discarded[1].nonFinite = {"t1"}
    /\ syncSamples # <<>>

(***************************************************************************)
(* C23.  The indicator shows Synced exactly when a sample has been         *)
(* accepted and the latest accepted sample was folded less than 60000 ms   *)
(* of local time ago; sending a request and the passing of time leave the  *)
(* window, the offsets, the best RTT and the last-sync instant unchanged.   *)
(***************************************************************************)
LastAcceptedAt == accepted[Len(accepted)].atTs

C23_SyncedIffFresh ==
    /\ [](IsSynced <=> (accepted # <<>> /\ localNow - LastAcceptedAt < 60000))
    /\ [][reqs' # reqs \/ localNow' # localNow
             => UNCHANGED <<syncSamples, offsetRef, timeOffsetMs, bestRttMs, lastSyncAt>>]_vars

\* the only accepted reply is exactly 60000 ms old, a request is unanswered and
\* the indicator shows Syncing
C23_Witness ==
    /\ accepted # <<>>
    /\ localNow - LastAcceptedAt = 60000
    /\ reqs # <<>>
    /\ ~IsSynced

\* the latest accepted reply is 59999 ms old and the indicator shows Synced
C23_StillSynced ==
    /\ accepted # <<>>
    /\ localNow - LastAcceptedAt = 59999
    /\ IsSynced

(***************************************************************************)
(* C22.  While no sample has been accepted both offsets are 0 and a tick   *)
(* sets the corrected now to the local now; and in every state, synced or  *)
(* not, a replica whose rally names a known starter yields a schedule with *)
(* one row per player and the phase of the corrected now.                  *)
(***************************************************************************)
KnownStarter ==
    /\ state.rally # <<>>
    /\ state.rally[1].starterId \in Ids(state.players)

C22_ComputedWithoutSync ==
    /\ [](accepted = <<>> => offsetRef = 0 /\ timeOffsetMs = 0 /\ ~IsSynced)
    /\ [][accepted = <<>> /\ now' # now => now' = 2 * localNow]_vars
    /\ [](KnownStarter =>
            /\ rallyComputed # <<>>
            /\ Len(rallyComputed[1].rows) = Len(state.players)
            /\ rallyComputed[1].phase =
                  IF 2 * state.rally[1].launchAt > now THEN "JOIN" ELSE "MARCH")

\* no reply has ever arrived, the clock has ticked past the launch and the
\* schedule of two players is there, in the MARCH phase
C22_Witness ==
    /\ accepted = <<>>
    /\ ~IsSynced
    /\ localNow > 0
    /\ now = 2 * localNow
    /\ KnownStarter
    /\ Len(state.players) = 2
    /\ rallyComputed # <<>>
    /\ rallyComputed[1].phase = "MARCH"

(***************************************************************************)
(* C27.  Every client quantity is a whole number of milliseconds: the      *)
(* operative and the shown offset, the corrected now, and of the schedule  *)
(* joinRemainingMs and every row's diffMs, diffToRallyStartMs and          *)
(* landInMs.  (startAt and rallyStartAt are sums of whole numbers.)  The   *)
(* model counts these quantities in halves of a millisecond, so a whole    *)
(* number of milliseconds is an even count.                                *)
(***************************************************************************)
WholeMs(h) == h % 2 = 0

C27_IntegerMilliseconds ==
    /\ WholeMs(offsetRef)
    /\ WholeMs(timeOffsetMs)
    /\ WholeMs(now)
    /\ rallyComputed # <<>> =>
          /\ WholeMs(rallyComputed[1].joinRemainingMs)
          /\ \A i \in 1..Len(rallyComputed[1].rows) :
                /\ WholeMs(rallyComputed[1].rows[i].diffMs)
                /\ WholeMs(rallyComputed[1].rows[i].diffToRallyStartMs)
                /\ WholeMs(rallyComputed[1].rows[i].landInMs)

(***************************************************************************)
(* C28.  The schedules two clients compute from the same replica at the    *)
(* same corrected now with the durations 5 min and 10 min are both absent  *)
(* or both present; they agree on launchAt, arrivalAt, joinRemainingMs,    *)
(* phase, the order of the rows and each row's startAt, diffMs,            *)
(* diffFromLaunchMs and landInMs; rallyStartAt, each row's rallyStartAt    *)
(* and the time until it are exactly 300000 ms apart.                      *)
(***************************************************************************)
\* the fields of a row that the duration has no part in
DurationFree(r) ==
    [id |-> r.id, marchMs |-> r.marchMs, startAt |-> r.startAt, diffMs |-> r.diffMs,
     diffFromLaunchMs |-> r.diffFromLaunchMs, landInMs |-> r.landInMs]

SameButRallyStart(a, b) ==
    /\ a.starter = b.starter
    /\ a.launchAt = b.launchAt
    /\ a.arrivalAt = b.arrivalAt
    /\ a.joinRemainingMs = b.joinRemainingMs
    /\ a.phase = b.phase
    /\ Len(a.rows) = Len(b.rows)
    /\ \A i \in 1..Len(a.rows) :
          /\ DurationFree(a.rows[i]) = DurationFree(b.rows[i])
          /\ a.rows[i].rallyStartAt - b.rows[i].rallyStartAt = 300000
          /\ a.rows[i].diffToRallyStartMs - b.rows[i].diffToRallyStartMs = 2 * 300000
    /\ a.rallyStartAt - b.rallyStartAt = 300000

C28_DurationOnlyMovesRallyStart ==
    LET five == RallyComputedOf(state, now, 5)
        ten == RallyComputedOf(state, now, 10)
    IN  /\ five = <<>> <=> ten = <<>>
        /\ five # <<>> => SameButRallyStart(five[1], ten[1])
        /\ rallyComputed = IF delay = 5 THEN five ELSE ten

\* this client has switched to 10 min and shows a schedule of two players with
\* different marches
C28_Witness ==
    /\ delay = 10
    /\ rallyComputed # <<>>
    /\ Len(rallyComputed[1].rows) = 2
    /\ rallyComputed[1].rows[1].marchMs # rallyComputed[1].rows[2].marchMs
    /\ rallyComputed[1].rallyStartAt = rallyComputed[1].launchAt - 600000

(***************************************************************************)
(* C30.  The step in which the server handles a TIME_SYNC_REQUEST with a   *)
(* finite t0 appends one TIME_SYNC_RESPONSE to the frames sent to the      *)
(* requesting socket and nothing to any other socket; the response carries *)
(* the request's t0, and t1 and t2 with t1 <= t2, both read from the       *)
(* server's clock during the step; players and rally stay as they were.    *)
(***************************************************************************)
ShakeReply(frame, t0) ==
    /\ frame.type = "TIME_SYNC_RESPONSE"
    /\ frame.payload.t0 = t0
    /\ frame.payload.nonFinite = {}
    /\ frame.payload.t1 <= frame.payload.t2
    /\ serverNow <= frame.payload.t1
    /\ frame.payload.t2 <= serverNow'

C30_ReplyToRequesterOnly ==
    [][lastFrom' # "" /\ lastMsg'[1].payload # <<>> =>
          /\ Len(outbox'[lastFrom']) = Len(outbox[lastFrom']) + 1
          /\ outbox'[lastFrom'] =
                Append(outbox[lastFrom'], outbox'[lastFrom'][Len(outbox'[lastFrom'])])
          /\ ShakeReply(outbox'[lastFrom'][Len(outbox'[lastFrom'])], lastMsg'[1].payload[1])
          /\ \A s \in Sockets \ {lastFrom'} : outbox'[s] = outbox[s]
          /\ players' = players
          /\ rally' = rally]_vars

\* ws2 asked with t0 = 7 in a room with a player, a rally and a second open
\* socket; its reply is the only frame under way and t1 < t2
C30_Witness ==
    /\ lastFrom = "ws2"
    /\ sockets = {"ws1", "ws2"}
    /\ players # <<>>
    /\ rally # <<>>
    /\ outbox["ws1"] = <<>>
    /\ Len(outbox["ws2"]) = 1
    /\ outbox["ws2"][1].type = "TIME_SYNC_RESPONSE"
    /\ outbox["ws2"][1].payload.t0 = 7
    /\ outbox["ws2"][1].payload.t1 < outbox["ws2"][1].payload.t2

(***************************************************************************)
(* C24.  While one rally is in the replica no key (phase, player, target   *)
(* instant) is announced twice: the calls made since the replica's rally   *)
(* last changed are pairwise different.                                    *)
(***************************************************************************)
C24_AnnouncedAtMostOnce ==
    \A i, j \in 1..Len(called) : i # j => called[i] # called[j]

(***************************************************************************)
(* C25.  When the replica holds no rally the de-duplication set is empty.  *)
(***************************************************************************)
C25_SetEmptyWithoutRally ==
    state.rally = <<>> => announced = {}

(***************************************************************************)
(* C26.  Once the cleanups have run both intervals are cleared; no step    *)
(* after that sends a frame, starts a timer, or changes the sample window, *)
(* the offsets, the replica or the corrected now, whatever timer fires or  *)
(* frame arrives.                                                          *)
(***************************************************************************)
C26_TeardownIsQuiet ==
    /\ [](torn # <<>> => ~syncInterval /\ ~tickInterval /\ readyState # "OPEN")
    /\ [][torn # <<>> =>
             /\ reqs' = reqs \/ (reqs # <<>> /\ reqs' = Tail(reqs))
             /\ timers' <= timers
             /\ UNCHANGED <<syncSamples, offsetRef, timeOffsetMs, bestRttMs, lastSyncAt,
                            accepted, state, now>>]_vars

\* the cleanups ran with timers pending and a frame under way; since then all
\* timers have fired and the frame has arrived
C26_Witness ==
    /\ torn # <<>>
    /\ torn[1].timers > 0
    /\ torn[1].frames > 0
    /\ timers = 0
    /\ outbox["ws1"] = <<>>
    /\ syncSamples # <<>>

(***************************************************************************)
(* C29.  A room that loads with nothing stored starts with no players and  *)
(* no rally, and a message handled in one room leaves the players and the  *)
(* rally of the other room as they were.                                   *)
(***************************************************************************)
C29_RoomsIsolated ==
    [][/\ ~loaded /\ loaded' /\ stored = <<>> /\ lastMsg' = lastMsg
            => players' = <<>> /\ rally' = <<>>
       /\ ~other.loaded /\ other'.loaded => other'.players = <<>>
       /\ other.loaded /\ lastMsg' = lastMsg /\ other' # other
            => players' = players /\ rally' = rally
       /\ other.loaded /\ lastMsg' # lastMsg => other'.players = other.players]_vars

(***************************************************************************)
(* C31.  The step in which the server handles a RALLY_START that carries   *)
(* delayMs sets the rally of the named starter with launchAt = the         *)
(* server's now + delayMs.                                                 *)
(***************************************************************************)
C31_DelayMsSetsLaunch ==
    [][/\ lastMsg' # lastMsg
       /\ lastMsg'[1].type = "RALLY_START"
       /\ lastMsg'[1].payload # <<>>
       /\ lastMsg'[1].payload[1].delayMs # <<>>
       => rally' = <<[starterId |-> lastMsg'[1].payload[1].starterId,
                      launchAt |-> serverNow + lastMsg'[1].payload[1].delayMs[1]]>>]_vars

(***************************************************************************)
(* C32.  The cues scheduleBeepsToTarget schedules for a target T, at       *)
(* corrected time nowTs and audio-clock time c: the go cue, the last and   *)
(* the only one of its frequency, at g = max(c + 20, c + max(0, T - nowTs))*)
(* in ms; before it at most five count cues, each at g - k * 750 for a     *)
(* k in 1..5 of its own, none earlier than c + 20 nor earlier than         *)
(* c + max(0, T - nowTs) - 3750, none after g; and every k in 1..5 whose   *)
(* time is not earlier than these two has its cue.  Each time is absolute: *)
(* it does not depend on the cue before it.                                *)
(***************************************************************************)
CueLeft == Max(0, Twice(beeps[1].targetTs) - beeps[1].nowTs)
CueGo == Max(beeps[1].currentTime + 40, beeps[1].currentTime + CueLeft)
CueAllowed(k) ==
    /\ CueGo - k * 1500 >= beeps[1].currentTime + 40
    /\ CueGo - k * 1500 >= beeps[1].currentTime + CueLeft - 7500

C32_AbsoluteCues ==
    beeps # <<>> =>
        LET calls == beeps[1].calls
            n == Len(calls)
        IN  /\ n >= 1 /\ n <= 6
            /\ calls[n] = [t |-> CueGo, freq |-> 1100]
            /\ \A j \in 1..(n - 1) :
                  /\ calls[j].freq = 720
                  /\ calls[j].t < CueGo
                  /\ \E k \in 1..5 : calls[j].t = CueGo - k * 1500 /\ CueAllowed(k)
                  /\ \A h \in 1..(j - 1) : calls[h].t # calls[j].t
            /\ \A k \in 1..5 :
                  CueAllowed(k) => \E j \in 1..(n - 1) : calls[j].t = CueGo - k * 1500

\* 2272.5 ms before the target: the cues of k = 3, 2, 1 and the go cue; those
\* of k = 4 and 5 would lie before c + 20
C32_Witness ==
    /\ beeps # <<>>
    /\ Twice(beeps[1].targetTs) - beeps[1].nowTs = 4545
    /\ beeps[1].currentTime = 7
    /\ Len(beeps[1].calls) = 4
    /\ beeps[1].calls[1].t = 7 + 4545 - 4500

(***************************************************************************)
(* C33.  Every call the announcement effect makes in a step is for a row   *)
(* of the rally in the replica, with voice enabled, the row's player       *)
(* selected or nobody selected, the call type of the phase enabled (JOIN:  *)
(* the player's rallyStartAt, MARCH: the player's startAt), and the target *)
(* more than 600 ms and at most 4200 ms after the corrected time of the    *)
(* step, Date.now() + offsetRef.current: no target that is at most 600 ms  *)
(* away, or in the past, is announced.                                     *)
(***************************************************************************)
\* the calls of the step: those appended to called, or all of called' when
\* the history was started anew
NewCalls ==
    LET kept == IF /\ Len(called') >= Len(called)
                   /\ SubSeq(called', 1, Len(called)) = called
                THEN Len(called) ELSE 0
    IN  {called'[i] : i \in (kept + 1)..Len(called')}

\* call c is for a row of the replica after the step, of the phase at nowH
\* and its enabled call type, for a selected player, with voice enabled
CallOfPhase(c, nowH) ==
    /\ ttsEnabled'
    /\ selectedIds' = {} \/ c.id \in selectedIds'
    /\ state'.rally # <<>>
    /\ \E i, j \in 1..Len(state'.players) :
          /\ state'.players[i].id = c.id
          /\ state'.players[j].id = state'.rally[1].starterId
          /\ LET startAt == state'.rally[1].launchAt + state'.players[j].marchMs
                                - state'.players[i].marchMs
             IN  IF nowH < Twice(state'.rally[1].launchAt)
                 THEN /\ ttsRallyCalls'
                      /\ c.kind = "rally"
                      /\ c.targetTs = startAt - delay' * 60000
                 ELSE /\ ttsMarchCalls'
                      /\ c.kind = "march"
                      /\ c.targetTs = startAt

\* 600 < target - nowH <= 4200, in half-ms
CallInWindow(c, nowH) ==
    /\ Twice(c.targetTs) - nowH > 1200
    /\ Twice(c.targetTs) - nowH <= 8400

C33_CallOnlyInWindow ==
    [][\A c \in NewCalls :
          /\ CallOfPhase(c, now')
          /\ CallInWindow(c, Twice(localNow') + offsetRef')]_vars

\* the same with the window taken at the now of the render, the value the
\* last tick has set: this one holds
CallOnlyInWindowOfNow ==
    [][\A c \in NewCalls :
          /\ CallOfPhase(c, now')
          /\ CallInWindow(c, now')]_vars

(***************************************************************************)
(* C34.  Take a run in which, at every instant, voice and march calls are  *)
(* enabled, p2 is selected or nobody is, the rally in the replica is the   *)
(* same, and the corrected time, which never runs backwards, is at most    *)
(* 3600 ms past the now of the last tick.  In it p2, whose startAt is      *)
(* 4200 ms after launchAt, gets its march announcement exactly once: the   *)
(* call is made, never a second time, and it has been made by the time now *)
(* reaches startAt - 600 ms.                                               *)
(***************************************************************************)
MarchCall == [kind |-> "march", id |-> "p2", targetTs |-> MarchLaunch + 6400 - 2200]
MarchCalls == Cardinality({i \in 1..Len(called) : called[i] = MarchCall})

MarchHypotheses ==
    /\ ttsEnabled
    /\ ttsMarchCalls
    /\ selectedIds = {} \/ "p2" \in selectedIds
    /\ state.rally = MarchSnapshot.rally
    /\ Twice(localNow) + offsetRef - now <= Twice(4200 - 600)

C34_MarchAnnouncedOnce ==
    []MarchHypotheses =>
        /\ <>(MarchCalls = 1)
        /\ [](MarchCalls <= 1)
        /\ [](now >= Twice(MarchCall.targetTs - 600) => MarchCalls = 1)

\* the same for the runs in which End Rally is not clicked: this one holds,
\* and so does the first conjunct, MarchCalls >= 1 for = 1, in every run
MarchAnnouncedOnceUnlessEnded ==
    [](MarchHypotheses /\ reqs = <<>>) =>
        /\ <>(MarchCalls = 1)
        /\ [](MarchCalls <= 1)
        /\ [](now >= Twice(MarchCall.targetTs - 600) => MarchCalls = 1)

MarchAnnouncedInTime ==
    []MarchHypotheses =>
        /\ <>(MarchCalls >= 1)
        /\ [](now >= Twice(MarchCall.targetTs - 600) => MarchCalls >= 1)

(***************************************************************************)
(* C35.  Once every call that was started has finished, this.data holds    *)
(* the players and the rally that the accepted mutations, applied in the   *)
(* order of their acceptance to an empty room, leave, and the storage      *)
(* holds the same players and rally.                                       *)
(***************************************************************************)
RECURSIVE AppliedTo(_, _)
AppliedTo(room, ms) ==
    IF ms = <<>> THEN room ELSE AppliedTo(AsyncMutated(room, Head(ms)), Tail(ms))

AllFinished ==
    /\ started # <<>>
    /\ \A i \in 1..Len(started) : started[i].pc = "done"

C35_NoLostMutation ==
    AllFinished =>
        LET expected == AppliedTo([players |-> <<>>, rally |-> <<>>, lastActiveAt |-> 0], applied)
        IN  /\ loaded
            /\ players = expected.players
            /\ rally = expected.rally
            /\ stored # <<>>
            /\ stored[1].players = players
            /\ stored[1].rally = rally

====
